---- MODULE Spec2Model ----
(***************************************************************************)
(* PaperAtlas: the incremental enrichment pipeline of src/app.py           *)
(* (extract_papers), with the enrichment agents it calls.                  *)
(*                                                                         *)
(* Three specifications model the pipeline:                                *)
(*   SpecAuthors   the author-enrichment stage (app.py 1604-1757)          *)
(*   SpecPapers    the paper-enrichment stage  (app.py 1759-1943)          *)
(*   SpecPipeline  the coordinator's stage machine (app.py 1386-2029)      *)
(* and SpecStages is the union of the two enrichment stages, SpecAll the   *)
(* union of the stages and the coordinator.                                *)
(* SpecSession runs the two stages one after the other as one session,     *)
(* SpecSessions the threads of several sessions of one conference.         *)
(*                                                                         *)
(* Single functions are called on bounded inputs by:                       *)
(*   SpecResponses the two workers on a model's reply text                 *)
(*   SpecCalls     the external call of a worker and its retries           *)
(*   SpecClean     clean_papers (app.py 1212-1246)                         *)
(*   SpecEntries   the classification of an enriched-authors entry         *)
(*   SpecOutcomes  an author from the worker's result to the next load     *)
(*   SpecKeyAuthors analyze_authors and the key-author filter              *)
(*   SpecFlags     a paper's boolean fields through the papers file        *)
(*   SpecWorkers   a worker and the record it was handed                   *)
(*   SpecBranch    the branch a stage takes after its partition            *)
(*   SpecLogs      a session's log while it is polled                      *)
(*   SpecRegistry  the session ids and the sessions registry               *)
(*                                                                         *)
(* Python values: a dict is a function whose domain is its key set, a list *)
(* is a sequence, None (JSON null) is the string NoneVal.                  *)
(***************************************************************************)
EXTENDS Integers, Sequences, FiniteSets, TLC

\* ------------------------------------------------------------------ bounds
MaxAuthors == 2     \* key authors of one run
MaxPapers == 3      \* cleaned papers of one run
MaxFile == 2        \* records of a prior-state file
MaxWorkers == 2     \* pool sizes 1..MaxWorkers
MaxRuns == 2        \* runs of one stage in one behaviour (run, restart)

\* The paper stage saves its progress every 10 completions (app.py 1925);
\* the model's batches hold at most MaxPapers subjects, so the interval is
\* scaled down to let a checkpoint happen inside a batch.
CheckpointEvery == 2

\* ------------------------------------------------------------ Python values
NoneVal == "None"

Truthy(v) == v # NoneVal /\ v # ""

Get(d, k, default) == IF k \in DOMAIN d THEN d[k] ELSE default

Put(d, k, v) == [x \in (DOMAIN d) \cup {k} |-> IF x = k THEN v ELSE d[x]]

EmptyDict == [x \in {} |-> NoneVal]

Range(s) == {s[i] : i \in 1..Len(s)}

NamesOf(s) == {s[i].name : i \in 1..Len(s)}

CountName(s, n) == Cardinality({i \in 1..Len(s) : s[i].name = n})

TitlesOf(s) == {s[i].title : i \in 1..Len(s)}

CountTitle(s, t) == Cardinality({i \in 1..Len(s) : s[i].title = t})

SeqsUpTo(S, n) == UNION {[1..k -> S] : k \in 0..n}

\* --------------------------------------------------------------- the disk
\* A persisted JSON file: absent, present but unparseable (truncated by an
\* interrupted write, or damaged), or a parsed document.
AbsentFile == [kind |-> "absent", data |-> <<>>]

CorruptFile == [kind |-> "corrupt", data |-> <<>>]

JsonFile(records) == [kind |-> "json", data |-> records]

\* ---------------------------------------------------------------- authors
AuthorOrder == <<"a1", "a2", "a3", "a4">>

AuthorNames == {AuthorOrder[i] : i \in 1..MaxAuthors}

\* analyze_authors keys its statistics by author name, so the key authors
\* are a list of distinct names; a key author is its statistics record.
KeyAuthor(n) == [name |-> n]

KeyAuthorLists == {[i \in 1..k |-> KeyAuthor(AuthorOrder[i])] : k \in 0..MaxAuthors}

CompleteAuthor(n) ==
    [name |-> n, affiliation |-> "MIT", role |-> "Professor",
     photo_url |-> NoneVal, profile_url |-> NoneVal]

AttemptedAuthor(n) ==
    [name |-> n, affiliation |-> "Unknown", role |-> "Unknown",
     photo_url |-> NoneVal, profile_url |-> NoneVal]

MissingAuthor(n) == [name |-> n]

PriorAuthorRecords ==
    UNION {{CompleteAuthor(n), AttemptedAuthor(n), MissingAuthor(n)} : n \in AuthorNames}

PriorAuthorFiles ==
    {AbsentFile, CorruptFile} \cup {JsonFile(s) : s \in SeqsUpTo(PriorAuthorRecords, MaxFile)}

REQUIRED_FIELDS == {"affiliation", "role", "photo_url", "profile_url"}

has_required_fields(author) == REQUIRED_FIELDS \subseteq DOMAIN author

has_info_AffiliationOnly(author) ==
    /\ Truthy(Get(author, "affiliation", NoneVal))
    /\ Get(author, "affiliation", NoneVal) # "Unknown"

has_info(author) ==
    /\ Truthy(Get(author, "affiliation", NoneVal))
    /\ Get(author, "affiliation", NoneVal) # "Unknown"
    /\ Truthy(Get(author, "role", NoneVal))
    /\ Get(author, "role", NoneVal) # "Unknown"

\* The class of one entry of the enriched-authors file.
ClassifyAuthor(author) ==
    IF ~has_required_fields(author) THEN "Missing"
    ELSE IF has_info(author) THEN "Complete"
    ELSE "Attempted"

\* The loop over the loaded file: a later entry of a name replaces an
\* earlier one of the same class.
RECURSIVE LoadAuthorLoop(_, _)
LoadAuthorLoop(existing_authors, dicts) ==
    IF existing_authors = <<>> THEN dicts
    ELSE LET author == Head(existing_authors)
             class == ClassifyAuthor(author)
         IN  LoadAuthorLoop(Tail(existing_authors),
               IF class = "Complete"
               THEN [dicts EXCEPT !.existing_enriched = Put(@, author.name, author)]
               ELSE IF class = "Attempted"
               THEN [dicts EXCEPT !.previously_attempted = Put(@, author.name, author)]
               ELSE dicts)

NoPriorState == [existing_enriched |-> EmptyDict, previously_attempted |-> EmptyDict]

\* One load of the enriched-authors file into the two lookups: nothing when
\* the file is absent, nothing (and a warning) when it cannot be parsed.
LoadExistingAuthors(file, dicts) ==
    IF file.kind = "json" THEN LoadAuthorLoop(file.data, dicts) ELSE dicts

LoadAuthorState_Always(reuse, csv_on_disk, file) == LoadExistingAuthors(file, NoPriorState)

\* The two places that load the file: the reuse branch (when the papers file
\* exists) and the start of the author stage (when the first found nothing).
LoadAuthorState(reuse, csv_on_disk, file) ==
    LET first == IF reuse /\ csv_on_disk
                 THEN LoadExistingAuthors(file, NoPriorState) ELSE NoPriorState
    IN  IF reuse /\ first.existing_enriched = EmptyDict /\ file.kind # "absent"
        THEN LoadExistingAuthors(file, first) ELSE first

ReusedAuthor(author, existing) ==
    [name |-> author.name,
     affiliation |-> Get(existing, "affiliation", "Unknown"),
     role |-> Get(existing, "role", "Unknown"),
     photo_url |-> Get(existing, "photo_url", NoneVal),
     profile_url |-> Get(existing, "profile_url", NoneVal)]

NoAuthorPartition ==
    [already_enriched_authors |-> <<>>, skipped_not_found_authors |-> <<>>,
     authors_to_enrich |-> <<>>]

RECURSIVE PartitionAuthors_DropSkipped(_, _, _, _)
PartitionAuthors_DropSkipped(authors, enriched, attempted, acc) ==
    IF authors = <<>> THEN acc
    ELSE LET author == Head(authors) IN
         PartitionAuthors_DropSkipped(Tail(authors), enriched, attempted,
           IF author.name \in DOMAIN enriched
           THEN [acc EXCEPT !.already_enriched_authors =
                     Append(@, ReusedAuthor(author, enriched[author.name]))]
           ELSE IF author.name \in DOMAIN attempted
           THEN acc
           ELSE [acc EXCEPT !.authors_to_enrich = Append(@, author)])

RECURSIVE PartitionAuthors_RetryAttempted(_, _, _, _)
PartitionAuthors_RetryAttempted(authors, enriched, attempted, acc) ==
    IF authors = <<>> THEN acc
    ELSE LET author == Head(authors) IN
         PartitionAuthors_RetryAttempted(Tail(authors), enriched, attempted,
           IF author.name \in DOMAIN enriched
           THEN [acc EXCEPT !.already_enriched_authors =
                     Append(@, ReusedAuthor(author, enriched[author.name]))]
           ELSE [acc EXCEPT !.authors_to_enrich = Append(@, author)])

\* The partition loop over the key authors.
RECURSIVE PartitionAuthors(_, _, _, _)
PartitionAuthors(authors, enriched, attempted, acc) ==
    IF authors = <<>> THEN acc
    ELSE LET author == Head(authors) IN
         PartitionAuthors(Tail(authors), enriched, attempted,
           IF author.name \in DOMAIN enriched
           THEN [acc EXCEPT !.already_enriched_authors =
                     Append(@, ReusedAuthor(author, enriched[author.name]))]
           ELSE IF author.name \in DOMAIN attempted
           THEN [acc EXCEPT !.skipped_not_found_authors =
                     Append(@, ReusedAuthor(author, attempted[author.name]))]
           ELSE [acc EXCEPT !.authors_to_enrich = Append(@, author)])

\* What get_author_info can return: None (no text, a JSON decode error, a
\* timeout, any API error), a parsed JSON object, or a parsed JSON value that
\* is not an object (the text held no {...} span for the regex to cut out).
AuthorInfoFull ==
    [kind |-> "dict",
     value |-> [affiliation |-> "MIT", role |-> "Professor",
                photo_url |-> "photo", profile_url |-> "profile"]]

AuthorInfoUnknown ==
    [kind |-> "dict",
     value |-> [affiliation |-> "Unknown", role |-> "Unknown",
                photo_url |-> NoneVal, profile_url |-> NoneVal]]

AuthorInfoOnlyAffiliation == [kind |-> "dict", value |-> [affiliation |-> "MIT"]]

AuthorInfoNone == [kind |-> "none", value |-> EmptyDict]

AuthorInfoNotObject == [kind |-> "nondict", value |-> EmptyDict]

AuthorInfos ==
    {AuthorInfoFull, AuthorInfoUnknown, AuthorInfoOnlyAffiliation,
     AuthorInfoNone, AuthorInfoNotObject}

\* Python's truth value of the returned object: None and {} are false.
InfoTruthy(info) ==
    \/ info.kind = "nondict"
    \/ info.kind = "dict" /\ DOMAIN info.value # {}

get_author_info_calls_Retry(info) == IF info.kind = "none" THEN 2 ELSE 1

\* Requests one get_author_info makes to the model: one, with no retry loop.
get_author_info_calls(info) == 1

\* enrich_single_author: the worker's result, or the exception it raises
\* (author_info.get on a value that is not a dict).
enrich_single_author(author_data, author_info) ==
    IF InfoTruthy(author_info)
    THEN IF author_info.kind = "nondict"
         THEN [raised |-> TRUE, author |-> author_data, found_info |-> FALSE]
         ELSE [raised |-> FALSE,
               author |-> [name |-> author_data.name,
                           affiliation |-> Get(author_info.value, "affiliation", "Unknown"),
                           role |-> Get(author_info.value, "role", "Unknown"),
                           photo_url |-> Get(author_info.value, "photo_url", NoneVal),
                           profile_url |-> Get(author_info.value, "profile_url", NoneVal)],
               found_info |-> TRUE]
    ELSE [raised |-> FALSE,
          author |-> [name |-> author_data.name, affiliation |-> "Unknown",
                      role |-> "Unknown", photo_url |-> NoneVal, profile_url |-> NoneVal],
          found_info |-> FALSE]

collect_author_Propagate(result, newly) ==
    IF result.raised
    THEN [newly |-> newly, propagate |-> TRUE]
    ELSE [newly |-> Append(newly, result.author), propagate |-> FALSE]

\* The body of the as_completed loop for one finished future: the result is
\* appended, an exception of the worker is logged and goes no further.
collect_author(result, newly) ==
    IF result.raised
    THEN [newly |-> newly, propagate |-> FALSE]
    ELSE [newly |-> Append(newly, result.author), propagate |-> FALSE]

Queued == [state |-> "queued"]

VARIABLES
    \* the request and the run
    reuse_existing,             \* the request's reuse_existing flag
    max_workers,                \* max_workers of the stage's pool
    run,                        \* 1 for the first run, +1 at each restart
    prev_run,                   \* how the previous run ended, and its file
    completed_count,            \* the dispatcher loop's counter
    saved_new,                  \* newly enriched records in the last save of this run
    warnings,                   \* what session.log recorded with type 'warning'
    \* the author stage
    authors_file,               \* the enriched-authors file on disk
    key_authors,
    existing_enriched,
    previously_attempted,
    already_enriched_authors,
    skipped_not_found_authors,
    authors_to_enrich,
    future_to_author,           \* one future per submitted author
    author_calls,               \* get_author_info requests per submitted author
    newly_enriched_authors,
    a_pc,
    \* the paper stage
    papers_enrichment_file,     \* the enriched-papers file on disk
    cleaned_papers,
    existing_enriched_papers,
    existing_categories,
    already_enriched_papers,
    papers_to_enrich,
    categories,
    future_to_paper,            \* one future per submitted paper
    paper_calls,                \* enrich_paper requests per submitted paper
    newly_enriched_papers,
    p_pc,
    \* the session of the coordinator
    status,
    current_step,
    completed_steps,
    step_trace,                 \* every value current_step has taken, in order
    error,                      \* session.error
    papers_file_exists,         \* the papers CSV is on disk
    s_pc,
    \* one call of a function of the program, for the claims about functions
    arg,                        \* the call's argument
    ret,                        \* what the call returned
    f_pc

rvars == <<reuse_existing, max_workers, run, prev_run, completed_count, saved_new, warnings>>

avars == <<authors_file, key_authors, existing_enriched, previously_attempted,
           already_enriched_authors, skipped_not_found_authors, authors_to_enrich,
           future_to_author, author_calls, newly_enriched_authors, a_pc>>

pvars == <<papers_enrichment_file, cleaned_papers, existing_enriched_papers,
           existing_categories, already_enriched_papers, papers_to_enrich, categories,
           future_to_paper, paper_calls, newly_enriched_papers, p_pc>>

svars == <<status, current_step, completed_steps, step_trace, error, papers_file_exists,
           s_pc>>

fvars == <<arg, ret, f_pc>>

vars == <<rvars, avars, pvars, svars, fvars>>

CompleteAuthorNames(file) ==
    {n \in NamesOf(file.data) :
        \E i \in 1..Len(file.data) :
            file.data[i].name = n /\ ClassifyAuthor(file.data[i]) = "Complete"}

\* The key authors the file's Complete records cover: what a run with reuse
\* finds already enriched.
ReusableAuthorNames(file, authors) == CompleteAuthorNames(file) \cap NamesOf(authors)

NoPrevRun == [ended |-> "none", reuse |-> FALSE, file |-> AbsentFile, complete |-> {}]

\* The stage's local variables as a fresh process has them.
AuthorLocalsReset ==
    /\ existing_enriched' = EmptyDict
    /\ previously_attempted' = EmptyDict
    /\ already_enriched_authors' = <<>>
    /\ skipped_not_found_authors' = <<>>
    /\ authors_to_enrich' = <<>>
    /\ future_to_author' = <<>>
    /\ author_calls' = <<>>
    /\ newly_enriched_authors' = <<>>

RunInit ==
    /\ reuse_existing \in BOOLEAN
    /\ max_workers \in 1..MaxWorkers
    /\ run = 1
    /\ completed_count = 0
    /\ saved_new = 0
    /\ warnings = {}

AuthorStageInit ==
    /\ prev_run = NoPrevRun
    /\ authors_file \in PriorAuthorFiles
    /\ key_authors \in KeyAuthorLists
    /\ existing_enriched = EmptyDict
    /\ previously_attempted = EmptyDict
    /\ already_enriched_authors = <<>>
    /\ skipped_not_found_authors = <<>>
    /\ authors_to_enrich = <<>>
    /\ future_to_author = <<>>
    /\ author_calls = <<>>
    /\ newly_enriched_authors = <<>>
    /\ a_pc = "start"

AuthorStageOff ==
    /\ authors_file = AbsentFile
    /\ key_authors = <<>>
    /\ existing_enriched = EmptyDict
    /\ previously_attempted = EmptyDict
    /\ already_enriched_authors = <<>>
    /\ skipped_not_found_authors = <<>>
    /\ authors_to_enrich = <<>>
    /\ future_to_author = <<>>
    /\ author_calls = <<>>
    /\ newly_enriched_authors = <<>>
    /\ a_pc = "off"

\* app.py 1435-1468 and 1608-1679: load the prior state, construct the agent,
\* analyse and partition the key authors. The agent's constructor raises when
\* no API key is configured; author_error is then logged as a warning.
AuthorLoadAndPartition ==
    /\ a_pc = "start"
    /\ \E csv_exists \in BOOLEAN, agent_ok \in BOOLEAN :
         LET dicts == LoadAuthorState(reuse_existing, csv_exists, authors_file)
             parts == PartitionAuthors(key_authors, dicts.existing_enriched,
                                       dicts.previously_attempted, NoAuthorPartition)
             load_warning == IF reuse_existing /\ authors_file.kind = "corrupt"
                             THEN {"load_authors"} ELSE {}
         IN  /\ existing_enriched' = dicts.existing_enriched
             /\ previously_attempted' = dicts.previously_attempted
             /\ IF agent_ok
                THEN /\ already_enriched_authors' = parts.already_enriched_authors
                     /\ skipped_not_found_authors' = parts.skipped_not_found_authors
                     /\ authors_to_enrich' = parts.authors_to_enrich
                     /\ warnings' = load_warning
                     /\ a_pc' = "partitioned"
                ELSE /\ UNCHANGED <<already_enriched_authors, skipped_not_found_authors,
                                    authors_to_enrich>>
                     /\ warnings' = load_warning \cup {"author_error"}
                     /\ a_pc' = "failed"
    /\ UNCHANGED <<reuse_existing, max_workers, run, prev_run, authors_file, key_authors,
                   future_to_author, author_calls, newly_enriched_authors,
                   completed_count, saved_new>>
    /\ UNCHANGED <<pvars, svars, fvars>>

\* app.py 1682-1690: nothing to enrich, rewrite the file with the reused and
\* the skipped authors.
AuthorSaveAllReused ==
    /\ a_pc = "partitioned"
    /\ authors_to_enrich = <<>>
    /\ authors_file' = JsonFile(already_enriched_authors \o skipped_not_found_authors)
    /\ a_pc' = "done"
    /\ UNCHANGED <<reuse_existing, max_workers, run, prev_run, key_authors,
                   existing_enriched, previously_attempted, already_enriched_authors,
                   skipped_not_found_authors, authors_to_enrich, future_to_author,
                   author_calls, newly_enriched_authors, completed_count, saved_new,
                   warnings>>
    /\ UNCHANGED <<pvars, svars, fvars>>

\* app.py 1721-1722: one future per author of authors_to_enrich.
AuthorSubmit ==
    /\ a_pc = "partitioned"
    /\ authors_to_enrich # <<>>
    /\ future_to_author' = [i \in 1..Len(authors_to_enrich) |-> Queued]
    /\ author_calls' = [i \in 1..Len(authors_to_enrich) |-> 0]
    /\ a_pc' = "pool"
    /\ UNCHANGED <<reuse_existing, max_workers, run, prev_run, authors_file, key_authors,
                   existing_enriched, previously_attempted, already_enriched_authors,
                   skipped_not_found_authors, authors_to_enrich, newly_enriched_authors,
                   completed_count, saved_new, warnings>>
    /\ UNCHANGED <<pvars, svars, fvars>>

Running(futures) == {i \in 1..Len(futures) : futures[i].state = "running"}

QueuedIn(futures) == {i \in 1..Len(futures) : futures[i].state = "queued"}

\* A pool thread takes the oldest queued task (the executor's work queue is
\* FIFO) and sends the request.
AuthorWorkerStart ==
    /\ a_pc = "pool"
    /\ QueuedIn(future_to_author) # {}
    /\ Cardinality(Running(future_to_author)) < max_workers
    /\ LET i == CHOOSE j \in QueuedIn(future_to_author) :
                    \A k \in QueuedIn(future_to_author) : j <= k
       IN  /\ future_to_author' = [future_to_author EXCEPT ![i] = [state |-> "running"]]
           /\ UNCHANGED author_calls
    /\ UNCHANGED <<reuse_existing, max_workers, run, prev_run, authors_file, key_authors,
                   existing_enriched, previously_attempted, already_enriched_authors,
                   skipped_not_found_authors, authors_to_enrich, newly_enriched_authors,
                   completed_count, saved_new, warnings, a_pc>>
    /\ UNCHANGED <<pvars, svars, fvars>>

\* get_author_info returns and enrich_single_author builds its result.
AuthorWorkerFinish ==
    /\ a_pc = "pool"
    /\ \E i \in Running(future_to_author), author_info \in AuthorInfos :
         /\ future_to_author' =
              [future_to_author EXCEPT ![i] =
                 [state |-> "done",
                  result |-> enrich_single_author(authors_to_enrich[i], author_info)]]
         /\ author_calls' =
              [author_calls EXCEPT ![i] = @ + get_author_info_calls(author_info)]
    /\ UNCHANGED <<reuse_existing, max_workers, run, prev_run, authors_file, key_authors,
                   existing_enriched, previously_attempted, already_enriched_authors,
                   skipped_not_found_authors, authors_to_enrich, newly_enriched_authors,
                   completed_count, saved_new, warnings, a_pc>>
    /\ UNCHANGED <<pvars, svars, fvars>>

DoneIn(futures) == {i \in 1..Len(futures) : futures[i].state = "done"}

AllCollected(futures) == \A i \in 1..Len(futures) : futures[i].state = "collected"

\* app.py 1724-1742: as_completed hands over a finished future; the loop
\* counts it, then appends its result or logs the worker's exception.
AuthorCollect ==
    /\ a_pc = "pool"
    /\ \E i \in DoneIn(future_to_author) :
         LET got == collect_author(future_to_author[i].result, newly_enriched_authors)
         IN  /\ completed_count' = completed_count + 1
             /\ future_to_author' =
                  [future_to_author EXCEPT ![i] =
                     [state |-> "collected", result |-> future_to_author[i].result]]
             /\ newly_enriched_authors' = got.newly
             /\ IF got.propagate
                THEN /\ warnings' = warnings \cup {"author_error"}
                     /\ a_pc' = "failed"
                ELSE UNCHANGED <<warnings, a_pc>>
    /\ UNCHANGED <<reuse_existing, max_workers, run, prev_run, authors_file, key_authors,
                   existing_enriched, previously_attempted, already_enriched_authors,
                   skipped_not_found_authors, authors_to_enrich, author_calls,
                   saved_new>>
    /\ UNCHANGED <<pvars, svars, fvars>>

\* app.py 1744-1753: the pool has shut down; the one save of the stage.
AuthorFinalSave ==
    /\ a_pc = "pool"
    /\ AllCollected(future_to_author)
    /\ authors_file' = JsonFile(already_enriched_authors \o skipped_not_found_authors
                                \o newly_enriched_authors)
    /\ saved_new' = Len(newly_enriched_authors)
    /\ a_pc' = "done"
    /\ UNCHANGED <<reuse_existing, max_workers, run, prev_run, key_authors,
                   existing_enriched, previously_attempted, already_enriched_authors,
                   skipped_not_found_authors, authors_to_enrich, future_to_author,
                   author_calls, newly_enriched_authors, completed_count, warnings>>
    /\ UNCHANGED <<pvars, svars, fvars>>

AuthorSaveEnabled ==
    \/ a_pc = "partitioned" /\ authors_to_enrich = <<>>
    \/ a_pc = "pool" /\ AllCollected(future_to_author)

\* The process dies between two writes: the disk keeps what it held and the
\* memory of the run is lost.
AuthorCrash ==
    /\ a_pc \in {"start", "partitioned", "pool"}
    /\ prev_run' = [prev_run EXCEPT !.complete =
                                ReusableAuthorNames(authors_file, key_authors)]
    /\ AuthorLocalsReset
    /\ a_pc' = "crashed"
    /\ UNCHANGED <<reuse_existing, max_workers, run, completed_count, saved_new, warnings,
                   authors_file, key_authors>>
    /\ UNCHANGED <<pvars, svars, fvars>>

\* The process dies inside a save: open(authors_file, 'w') has truncated the
\* file and json.dump has written none or a part of the document.
AuthorCrashDuringSave ==
    /\ AuthorSaveEnabled
    /\ prev_run' = [prev_run EXCEPT !.complete =
                                ReusableAuthorNames(authors_file, key_authors)]
    /\ authors_file' = CorruptFile
    /\ AuthorLocalsReset
    /\ a_pc' = "crashed"
    /\ UNCHANGED <<reuse_existing, max_workers, run, completed_count, saved_new, warnings,
                   key_authors>>
    /\ UNCHANGED <<pvars, svars, fvars>>

\* The next run of the stage over the same source data, with what is on disk.
AuthorRestart ==
    /\ a_pc \in {"done", "failed", "crashed"}
    /\ run < MaxRuns
    /\ run' = run + 1
    /\ prev_run' = [ended |-> a_pc, reuse |-> reuse_existing, file |-> authors_file,
                    complete |-> IF a_pc = "crashed" THEN prev_run.complete ELSE {}]
    /\ reuse_existing' \in BOOLEAN
    /\ AuthorLocalsReset
    /\ completed_count' = 0
    /\ saved_new' = 0
    /\ warnings' = {}
    /\ a_pc' = "start"
    /\ UNCHANGED <<max_workers, authors_file, key_authors>>
    /\ UNCHANGED <<pvars, svars, fvars>>

NextAuthors ==
    \/ AuthorLoadAndPartition
    \/ AuthorSaveAllReused
    \/ AuthorSubmit
    \/ AuthorWorkerStart
    \/ AuthorWorkerFinish
    \/ AuthorCollect
    \/ AuthorFinalSave
    \/ AuthorCrash
    \/ AuthorCrashDuringSave
    \/ AuthorRestart

\* ----------------------------------------------------------------- papers
TitleOrder == <<"t1", "t2", "t3", "t4">>

\* The titles a prior enriched-papers file may hold.
PriorTitles == {TitleOrder[i] : i \in 1..MaxFile}

\* clean_papers keeps one paper per title; a cleaned paper is its CSV row.
CleanedPaper(t) == [title |-> t, pdf_url |-> "u1"]

CleanedPaperLists == {[i \in 1..k |-> CleanedPaper(TitleOrder[i])] : k \in 0..MaxPapers}

CompletePaper(t, url) ==
    [title |-> t, pdf_url |-> url, key_findings |-> "kf", description |-> "d",
     key_contribution |-> "kc", novelty |-> "nv", ai_categories |-> <<"c0">>]

DegradedPaper(t, url) ==
    [title |-> t, pdf_url |-> url, key_findings |-> "", description |-> "",
     key_contribution |-> "", novelty |-> "", ai_categories |-> <<>>]

PriorPaperRecords ==
    UNION {{CompletePaper(t, "u1"), CompletePaper(t, "u0"), DegradedPaper(t, "u1")} :
             t \in PriorTitles}

NoPaperData == [categories |-> <<>>, papers |-> <<>>]

AbsentPapersFile == [kind |-> "absent", data |-> NoPaperData]

CorruptPapersFile == [kind |-> "corrupt", data |-> NoPaperData]

PapersDocument(cats, papers) ==
    [kind |-> "json", data |-> [categories |-> cats, papers |-> papers]]

PriorPaperFiles ==
    {AbsentPapersFile, CorruptPapersFile}
    \cup {PapersDocument(c, s) : c \in {<<>>, <<"c0">>},
                                 s \in SeqsUpTo(PriorPaperRecords, MaxFile)}

PAPER_REQUIRED_FIELDS ==
    {"key_findings", "description", "key_contribution", "novelty", "ai_categories"}

\* Python's truth value of an enrichment field: a list for ai_categories, a
\* string (or None) for the others.
FieldTruthy(field, v) == IF field = "ai_categories" THEN v # <<>> ELSE Truthy(v)

is_complete(paper) ==
    \A field \in PAPER_REQUIRED_FIELDS :
        field \in DOMAIN paper /\ FieldTruthy(field, paper[field])

RECURSIVE LoadPaperLoop(_, _)
LoadPaperLoop(papers, enriched) ==
    IF papers = <<>> THEN enriched
    ELSE LET paper == Head(papers) IN
         LoadPaperLoop(Tail(papers),
           IF is_complete(paper) THEN Put(enriched, paper.title, paper) ELSE enriched)

\* app.py 1771-1788: the prior state of the paper stage; empty when reuse is
\* off, when the file is absent and (with a warning) when it cannot be parsed.
LoadExistingPapers(reuse, file) ==
    IF reuse /\ file.kind = "json"
    THEN [existing_enriched_papers |-> LoadPaperLoop(file.data.papers, EmptyDict),
          existing_categories |-> file.data.categories]
    ELSE [existing_enriched_papers |-> EmptyDict, existing_categories |-> <<>>]

ReusedPaper(paper, existing) ==
    [title |-> paper.title, pdf_url |-> paper.pdf_url,
     key_findings |-> Get(existing, "key_findings", ""),
     description |-> Get(existing, "description", ""),
     key_contribution |-> Get(existing, "key_contribution", ""),
     novelty |-> Get(existing, "novelty", ""),
     ai_categories |-> Get(existing, "ai_categories", <<>>)]

NoPaperPartition == [already_enriched_papers |-> <<>>, papers_to_enrich |-> <<>>]

RECURSIVE PartitionPapers_IgnoreUrl(_, _, _)
PartitionPapers_IgnoreUrl(papers, enriched, acc) ==
    IF papers = <<>> THEN acc
    ELSE LET paper == Head(papers) IN
         PartitionPapers_IgnoreUrl(Tail(papers), enriched,
           IF paper.title \in DOMAIN enriched
           THEN [acc EXCEPT !.already_enriched_papers =
                     Append(@, ReusedPaper(paper, enriched[paper.title]))]
           ELSE [acc EXCEPT !.papers_to_enrich = Append(@, paper)])

\* The partition loop over the cleaned papers.
RECURSIVE PartitionPapers(_, _, _)
PartitionPapers(papers, enriched, acc) ==
    IF papers = <<>> THEN acc
    ELSE LET paper == Head(papers) IN
         PartitionPapers(Tail(papers), enriched,
           IF /\ paper.title \in DOMAIN enriched
              /\ Get(enriched[paper.title], "pdf_url", "") = Get(paper, "pdf_url", "")
           THEN [acc EXCEPT !.already_enriched_papers =
                     Append(@, ReusedPaper(paper, enriched[paper.title]))]
           ELSE [acc EXCEPT !.papers_to_enrich = Append(@, paper)])

\* generate_categories returns a list in every case (its own handler falls
\* back to the default list).
GeneratedCategories == {<<"g1">>}

reuse_categories_AtMostHalf(stored, n_to_enrich, n_cleaned) ==
    stored # <<>> /\ 2 * n_to_enrich <= n_cleaned

\* app.py 1824: reuse the stored categories when there are some and fewer
\* than half of the papers need enrichment.
reuse_categories(stored, n_to_enrich, n_cleaned) ==
    stored # <<>> /\ 2 * n_to_enrich < n_cleaned

\* What enrich_paper can do: return None, return a parsed JSON object, or
\* raise (it builds its prompt outside its own handler).
EnrichmentFull ==
    [kind |-> "dict",
     value |-> [key_findings |-> "kf1", description |-> "d1", key_contribution |-> "kc1",
                novelty |-> "nv1", categories |-> <<"g1">>]]

EnrichmentNone == [kind |-> "none", value |-> EmptyDict]

EnrichmentRaises == [kind |-> "raise", value |-> EmptyDict]

PaperEnrichments ==
    {EnrichmentFull, EnrichmentNone, EnrichmentRaises}

\* Requests one enrich_paper makes to the model: one, with no retry loop.
enrich_paper_calls(enrichment) == 1

\* enrich_single_paper: its own handler turns every exception into the
\* degraded record, so the worker itself never raises.
enrich_single_paper(paper_data, enrichment) ==
    IF enrichment.kind = "dict" /\ DOMAIN enrichment.value # {}
    THEN [raised |-> FALSE,
          paper |-> [title |-> paper_data.title, pdf_url |-> paper_data.pdf_url,
                     key_findings |-> Get(enrichment.value, "key_findings", ""),
                     description |-> Get(enrichment.value, "description", ""),
                     key_contribution |-> Get(enrichment.value, "key_contribution", ""),
                     novelty |-> Get(enrichment.value, "novelty", ""),
                     ai_categories |-> Get(enrichment.value, "categories", <<>>)],
          found_info |-> TRUE]
    ELSE [raised |-> FALSE,
          paper |-> DegradedPaper(paper_data.title, paper_data.pdf_url),
          found_info |-> FALSE]

\* The body of the as_completed loop for one finished future, count being the
\* counter after its increment: the result is appended and, every
\* CheckpointEvery completions, the progress is saved; a worker's exception
\* is logged and goes no further.
collect_paper(result, newly, count) ==
    IF result.raised
    THEN [newly |-> newly, checkpoint |-> FALSE]
    ELSE [newly |-> Append(newly, result.paper),
          checkpoint |-> count % CheckpointEvery = 0]

save_progress_NoCategories(cats, already, newly) == PapersDocument(<<>>, already \o newly)

save_progress_NewFirst(cats, already, newly) == PapersDocument(cats, newly \o already)

\* save_progress: the document the paper stage writes.
save_progress(cats, already, newly) == PapersDocument(cats, already \o newly)

CompletePaperTitles(file) ==
    {file.data.papers[i].title : i \in {j \in 1..Len(file.data.papers) :
                                          is_complete(file.data.papers[j])}}

\* The cleaned papers the file's Complete records cover, under the same URL:
\* what a run with reuse finds already enriched.
ReusablePaperTitles(file, papers) ==
    LET loaded == LoadExistingPapers(TRUE, file).existing_enriched_papers IN
    {papers[i].title : i \in {j \in 1..Len(papers) :
                                 /\ papers[j].title \in DOMAIN loaded
                                 /\ loaded[papers[j].title].pdf_url = papers[j].pdf_url}}

NoPrevPaperRun ==
    [ended |-> "none", reuse |-> FALSE, file |-> AbsentPapersFile, complete |-> {}]

PaperLocalsReset ==
    /\ existing_enriched_papers' = EmptyDict
    /\ existing_categories' = <<>>
    /\ already_enriched_papers' = <<>>
    /\ papers_to_enrich' = <<>>
    /\ categories' = <<>>
    /\ future_to_paper' = <<>>
    /\ paper_calls' = <<>>
    /\ newly_enriched_papers' = <<>>

PaperStageInit ==
    /\ prev_run = NoPrevPaperRun
    /\ papers_enrichment_file \in PriorPaperFiles
    /\ cleaned_papers \in CleanedPaperLists
    /\ existing_enriched_papers = EmptyDict
    /\ existing_categories = <<>>
    /\ already_enriched_papers = <<>>
    /\ papers_to_enrich = <<>>
    /\ categories = <<>>
    /\ future_to_paper = <<>>
    /\ paper_calls = <<>>
    /\ newly_enriched_papers = <<>>
    /\ p_pc = "start"

PaperStageOff ==
    /\ papers_enrichment_file = AbsentPapersFile
    /\ cleaned_papers = <<>>
    /\ existing_enriched_papers = EmptyDict
    /\ existing_categories = <<>>
    /\ already_enriched_papers = <<>>
    /\ papers_to_enrich = <<>>
    /\ categories = <<>>
    /\ future_to_paper = <<>>
    /\ paper_calls = <<>>
    /\ newly_enriched_papers = <<>>
    /\ p_pc = "off"

\* app.py 1771-1830: load the prior state, construct the agent, partition the
\* cleaned papers and choose the categories of the run. The agent's
\* constructor raises when no API key is configured; paper_error is then
\* logged as a warning.
PaperLoadAndPartition ==
    /\ p_pc = "start"
    /\ \E agent_ok \in BOOLEAN, generated \in GeneratedCategories :
         LET prior == LoadExistingPapers(reuse_existing, papers_enrichment_file)
             parts == PartitionPapers(cleaned_papers, prior.existing_enriched_papers,
                                      NoPaperPartition)
             load_warning == IF reuse_existing /\ papers_enrichment_file.kind = "corrupt"
                             THEN {"load_papers"} ELSE {}
         IN  /\ existing_enriched_papers' = prior.existing_enriched_papers
             /\ existing_categories' = prior.existing_categories
             /\ IF agent_ok
                THEN /\ already_enriched_papers' = parts.already_enriched_papers
                     /\ papers_to_enrich' = parts.papers_to_enrich
                     /\ categories' =
                          IF reuse_categories(prior.existing_categories,
                                              Len(parts.papers_to_enrich),
                                              Len(cleaned_papers))
                          THEN prior.existing_categories ELSE generated
                     /\ warnings' = load_warning
                     /\ p_pc' = "partitioned"
                ELSE /\ UNCHANGED <<already_enriched_papers, papers_to_enrich, categories>>
                     /\ warnings' = load_warning \cup {"paper_error"}
                     /\ p_pc' = "failed"
    /\ UNCHANGED <<reuse_existing, max_workers, run, prev_run, completed_count, saved_new,
                   papers_enrichment_file, cleaned_papers, future_to_paper, paper_calls,
                   newly_enriched_papers>>
    /\ UNCHANGED <<avars, svars, fvars>>

\* app.py 1832-1842: nothing to enrich, rewrite the file with the reused papers.
PaperSaveAllReused ==
    /\ p_pc = "partitioned"
    /\ papers_to_enrich = <<>>
    /\ papers_enrichment_file' = PapersDocument(categories, already_enriched_papers)
    /\ p_pc' = "done"
    /\ UNCHANGED <<rvars, cleaned_papers, existing_enriched_papers, existing_categories,
                   already_enriched_papers, papers_to_enrich, categories, future_to_paper,
                   paper_calls, newly_enriched_papers>>
    /\ UNCHANGED <<avars, svars, fvars>>

\* app.py 1902-1906: one future per paper of papers_to_enrich.
PaperSubmit ==
    /\ p_pc = "partitioned"
    /\ papers_to_enrich # <<>>
    /\ future_to_paper' = [i \in 1..Len(papers_to_enrich) |-> Queued]
    /\ paper_calls' = [i \in 1..Len(papers_to_enrich) |-> 0]
    /\ p_pc' = "pool"
    /\ UNCHANGED <<rvars, papers_enrichment_file, cleaned_papers, existing_enriched_papers,
                   existing_categories, already_enriched_papers, papers_to_enrich,
                   categories, newly_enriched_papers>>
    /\ UNCHANGED <<avars, svars, fvars>>

\* A pool thread takes the oldest queued task.
PaperWorkerStart ==
    /\ p_pc = "pool"
    /\ QueuedIn(future_to_paper) # {}
    /\ Cardinality(Running(future_to_paper)) < max_workers
    /\ LET i == CHOOSE j \in QueuedIn(future_to_paper) :
                    \A k \in QueuedIn(future_to_paper) : j <= k
       IN  future_to_paper' = [future_to_paper EXCEPT ![i] = [state |-> "running"]]
    /\ UNCHANGED <<rvars, papers_enrichment_file, cleaned_papers, existing_enriched_papers,
                   existing_categories, already_enriched_papers, papers_to_enrich,
                   categories, paper_calls, newly_enriched_papers, p_pc>>
    /\ UNCHANGED <<avars, svars, fvars>>

\* enrich_paper returns or raises and enrich_single_paper builds its result.
PaperWorkerFinish ==
    /\ p_pc = "pool"
    /\ \E i \in Running(future_to_paper), enrichment \in PaperEnrichments :
         /\ future_to_paper' =
              [future_to_paper EXCEPT ![i] =
                 [state |-> "done",
                  result |-> enrich_single_paper(papers_to_enrich[i], enrichment)]]
         /\ paper_calls' = [paper_calls EXCEPT ![i] = @ + enrich_paper_calls(enrichment)]
    /\ UNCHANGED <<rvars, papers_enrichment_file, cleaned_papers, existing_enriched_papers,
                   existing_categories, already_enriched_papers, papers_to_enrich,
                   categories, newly_enriched_papers, p_pc>>
    /\ UNCHANGED <<avars, svars, fvars>>

\* app.py 1908-1932: as_completed hands over a finished future; the loop
\* counts it, appends its result and saves the progress at a checkpoint.
PaperCollect ==
    /\ p_pc = "pool"
    /\ \E i \in DoneIn(future_to_paper) :
         LET got == collect_paper(future_to_paper[i].result, newly_enriched_papers,
                                  completed_count + 1)
         IN  /\ completed_count' = completed_count + 1
             /\ future_to_paper' =
                  [future_to_paper EXCEPT ![i] =
                     [state |-> "collected", result |-> future_to_paper[i].result]]
             /\ newly_enriched_papers' = got.newly
             /\ IF got.checkpoint
                THEN /\ papers_enrichment_file' =
                          save_progress(categories, already_enriched_papers, got.newly)
                     /\ saved_new' = Len(got.newly)
                ELSE UNCHANGED <<papers_enrichment_file, saved_new>>
    /\ UNCHANGED <<reuse_existing, max_workers, run, prev_run, warnings, cleaned_papers,
                   existing_enriched_papers, existing_categories, already_enriched_papers,
                   papers_to_enrich, categories, paper_calls, p_pc>>
    /\ UNCHANGED <<avars, svars, fvars>>

\* app.py 1934-1939: the pool has shut down; the final save.
PaperFinalSave ==
    /\ p_pc = "pool"
    /\ AllCollected(future_to_paper)
    /\ papers_enrichment_file' =
         save_progress(categories, already_enriched_papers, newly_enriched_papers)
    /\ saved_new' = Len(newly_enriched_papers)
    /\ p_pc' = "done"
    /\ UNCHANGED <<reuse_existing, max_workers, run, prev_run, completed_count, warnings,
                   cleaned_papers, existing_enriched_papers, existing_categories,
                   already_enriched_papers, papers_to_enrich, categories, future_to_paper,
                   paper_calls, newly_enriched_papers>>
    /\ UNCHANGED <<avars, svars, fvars>>

\* The process dies between two writes: the disk keeps what it held and the
\* memory of the run is lost.
PaperCrash ==
    /\ p_pc \in {"start", "partitioned", "pool"}
    /\ prev_run' = [prev_run EXCEPT !.complete =
                     ReusablePaperTitles(papers_enrichment_file, cleaned_papers)]
    /\ PaperLocalsReset
    /\ p_pc' = "crashed"
    /\ UNCHANGED <<reuse_existing, max_workers, run, completed_count, saved_new, warnings,
                   papers_enrichment_file, cleaned_papers>>
    /\ UNCHANGED <<avars, svars, fvars>>

\* The process dies inside the all-reused save or the final save: the file
\* has been truncated by open(..., 'w') and holds none or a part of the
\* document.
PaperCrashDuringSave ==
    /\ \/ p_pc = "partitioned" /\ papers_to_enrich = <<>>
       \/ p_pc = "pool" /\ AllCollected(future_to_paper)
    /\ prev_run' = [prev_run EXCEPT !.complete =
                     ReusablePaperTitles(papers_enrichment_file, cleaned_papers)]
    /\ papers_enrichment_file' = CorruptPapersFile
    /\ PaperLocalsReset
    /\ p_pc' = "crashed"
    /\ UNCHANGED <<reuse_existing, max_workers, run, completed_count, saved_new, warnings,
                   cleaned_papers>>
    /\ UNCHANGED <<avars, svars, fvars>>

\* The process dies inside a checkpoint's save_progress, after the loop has
\* counted and appended the result that triggered it.
PaperCrashDuringCheckpoint ==
    /\ p_pc = "pool"
    /\ \E i \in DoneIn(future_to_paper) :
         collect_paper(future_to_paper[i].result, newly_enriched_papers,
                       completed_count + 1).checkpoint
    /\ completed_count' = completed_count + 1
    /\ prev_run' = [prev_run EXCEPT !.complete =
                     ReusablePaperTitles(papers_enrichment_file, cleaned_papers)]
    /\ papers_enrichment_file' = CorruptPapersFile
    /\ PaperLocalsReset
    /\ p_pc' = "crashed"
    /\ UNCHANGED <<reuse_existing, max_workers, run, saved_new, warnings, cleaned_papers>>
    /\ UNCHANGED <<avars, svars, fvars>>

\* The next run of the stage over the same source data, with what is on disk.
PaperRestart ==
    /\ p_pc \in {"done", "failed", "crashed"}
    /\ run < MaxRuns
    /\ run' = run + 1
    /\ prev_run' = [ended |-> p_pc, reuse |-> reuse_existing,
                    file |-> papers_enrichment_file,
                    complete |-> IF p_pc = "crashed" THEN prev_run.complete ELSE {}]
    /\ reuse_existing' \in BOOLEAN
    /\ PaperLocalsReset
    /\ completed_count' = 0
    /\ saved_new' = 0
    /\ warnings' = {}
    /\ p_pc' = "start"
    /\ UNCHANGED <<max_workers, papers_enrichment_file, cleaned_papers>>
    /\ UNCHANGED <<avars, svars, fvars>>

NextPapers ==
    \/ PaperLoadAndPartition
    \/ PaperSaveAllReused
    \/ PaperSubmit
    \/ PaperWorkerStart
    \/ PaperWorkerFinish
    \/ PaperCollect
    \/ PaperFinalSave
    \/ PaperCrash
    \/ PaperCrashDuringSave
    \/ PaperCrashDuringCheckpoint
    \/ PaperRestart

\* --------------------------------------------------------------- pipeline
\* The coordinator, extract_papers, seen from the session a client polls.
\* Each enrichment stage is here one step that either returns or raises into
\* the stage's handler; its inside is the stage model above.
StageNames == {"authors", "papers_enrichment", "synthesis", "website"}

StageWarning(stage) ==
    CASE stage = "authors" -> "author_error"
      [] stage = "papers_enrichment" -> "paper_error"
      [] stage = "synthesis" -> "synthesis_error"
      [] stage = "website" -> "website_error"

ensure_step_Append(steps, name) == Append(steps, name)

ensure_step(steps, name) == IF name \in Range(steps) THEN steps ELSE Append(steps, name)

ensure_steps_First(steps, names) == ensure_step(steps, Head(names))

RECURSIVE ensure_steps(_, _)
ensure_steps(steps, names) ==
    IF names = <<>> THEN steps
    ELSE ensure_steps(ensure_step(steps, Head(names)), Tail(names))

\* current_step = name, recorded when the value changes.
AssignStep(trace, old, name) == IF old = name THEN trace ELSE Append(trace, name)

stage_handler_Reraise(stage) == [log_type |-> "warning", reraise |-> stage = "website"]

\* The except clause that closes each of the four stages: it logs a warning
\* and falls through to the code after the stage.
stage_handler(stage) == [log_type |-> "warning", reraise |-> FALSE]

\* The outer handler of extract_papers.
Fatal(cause) ==
    /\ status' = "error"
    /\ error' = cause
    /\ s_pc' = "end"

SessionInit ==
    /\ status = "running"
    /\ current_step = NoneVal
    /\ completed_steps = <<>>
    /\ step_trace = <<>>
    /\ error = NoneVal
    /\ papers_file_exists \in BOOLEAN
    /\ s_pc = "begin"

SessionOff ==
    /\ status = "running"
    /\ current_step = NoneVal
    /\ completed_steps = <<>>
    /\ step_trace = <<>>
    /\ error = NoneVal
    /\ papers_file_exists = FALSE
    /\ s_pc = "off"

\* app.py 1415-1470: with reuse and a papers CSV on disk the scrape is
\* skipped. This code is outside the coordinator's try: when reading the CSV
\* raises, the thread ends and the session keeps the status 'running'.
ReuseBranch ==
    /\ s_pc = "begin"
    /\ IF reuse_existing /\ papers_file_exists
       THEN \E csv_ok \in BOOLEAN :
              IF csv_ok
              THEN /\ completed_steps' =
                        ensure_steps(completed_steps,
                                     <<"login", "sessions", "papers", "save">>)
                   /\ current_step' = "authors"
                   /\ step_trace' = AssignStep(step_trace, current_step, "authors")
                   /\ s_pc' = "authors_enter"
                   /\ UNCHANGED warnings
              ELSE /\ s_pc' = "dead"
                   /\ UNCHANGED <<completed_steps, current_step, step_trace, warnings>>
       ELSE /\ warnings' = IF reuse_existing THEN warnings \cup {"no_papers_file"}
                           ELSE warnings
            /\ s_pc' = "login"
            /\ UNCHANGED <<completed_steps, current_step, step_trace>>
    /\ UNCHANGED <<reuse_existing, max_workers, run, prev_run, completed_count, saved_new,
                   status, error, papers_file_exists>>
    /\ UNCHANGED <<avars, pvars, fvars>>

\* app.py 1473-1488: the browser is launched and the login page opened.
Login ==
    /\ s_pc = "login"
    /\ \E outcome \in {"ok", "launch_raises", "goto_raises"} :
         IF outcome = "launch_raises"
         THEN /\ Fatal("launch")
              /\ UNCHANGED <<current_step, step_trace, completed_steps>>
         ELSE /\ current_step' = "login"
              /\ step_trace' = AssignStep(step_trace, current_step, "login")
              /\ IF outcome = "ok"
                 THEN /\ completed_steps' = ensure_step(completed_steps, "login")
                      /\ s_pc' = "sessions"
                      /\ UNCHANGED <<status, error>>
                 ELSE /\ Fatal("login")
                      /\ UNCHANGED completed_steps
    /\ UNCHANGED <<rvars, papers_file_exists>>
    /\ UNCHANGED <<avars, pvars, fvars>>

\* app.py 1490-1605: one scrape step; an exception in it reaches the outer
\* handler. The save step ends with browser.close(), after the CSV has been
\* written and the step recorded.
ScrapeStep(step, next) ==
    /\ s_pc = step
    /\ current_step' = step
    /\ step_trace' = AssignStep(step_trace, current_step, step)
    /\ \E outcome \in {"ok", "raises"} \cup (IF step = "save" THEN {"close_raises"} ELSE {}) :
         CASE outcome = "ok" ->
                /\ completed_steps' = ensure_step(completed_steps, step)
                /\ s_pc' = next
                /\ papers_file_exists' = (papers_file_exists \/ step = "save")
                /\ UNCHANGED <<status, error>>
           [] outcome = "close_raises" ->
                /\ completed_steps' = ensure_step(completed_steps, step)
                /\ papers_file_exists' = TRUE
                /\ Fatal("browser_close")
           [] outcome = "raises" ->
                /\ Fatal(step)
                /\ \E written \in BOOLEAN :
                     papers_file_exists' = (papers_file_exists \/ (written /\ step = "save"))
                /\ UNCHANGED completed_steps
    /\ UNCHANGED rvars
    /\ UNCHANGED <<avars, pvars, fvars>>

Sessions == ScrapeStep("sessions", "papers")

Papers == ScrapeStep("papers", "save")

Save == ScrapeStep("save", "authors_enter")

\* The code between two stages: the stage's output path is built (model_slug
\* raises on a model id that is not a string) and current_step is set.
EnterStage(from, stage, slugged) ==
    /\ s_pc = from
    /\ \E slug_ok \in (IF slugged THEN BOOLEAN ELSE {TRUE}) :
         IF slug_ok
         THEN /\ current_step' = stage
              /\ step_trace' = AssignStep(step_trace, current_step, stage)
              /\ s_pc' = stage
              /\ UNCHANGED <<status, error>>
         ELSE /\ Fatal("model_slug")
              /\ UNCHANGED <<current_step, step_trace>>
    /\ UNCHANGED <<rvars, completed_steps, papers_file_exists>>
    /\ UNCHANGED <<avars, pvars, fvars>>

\* What follows a stage whose body raised: the stage's handler.
StageRaised(stage, next) ==
    LET handler == stage_handler(stage) IN
    IF handler.reraise
    THEN /\ Fatal(StageWarning(stage))
         /\ UNCHANGED warnings
    ELSE /\ warnings' = warnings \cup {StageWarning(stage)}
         /\ s_pc' = next
         /\ UNCHANGED <<status, error>>

\* app.py 1638-1757 and 1790-1943: an enrichment stage; the step is recorded
\* as completed after the stage's save.
EnrichmentStage(stage, next) ==
    /\ s_pc = stage
    /\ \E raised \in BOOLEAN :
         IF raised
         THEN /\ StageRaised(stage, next)
              /\ UNCHANGED completed_steps
         ELSE /\ completed_steps' = ensure_step(completed_steps, stage)
              /\ s_pc' = next
              /\ UNCHANGED <<status, error, warnings>>
    /\ UNCHANGED <<reuse_existing, max_workers, run, prev_run, completed_count, saved_new,
                   current_step, step_trace, papers_file_exists>>
    /\ UNCHANGED <<avars, pvars, fvars>>

EnterAuthors == EnterStage("authors_enter", "authors", FALSE)

RunAuthors == EnrichmentStage("authors", "papers_enter")

EnterPapersEnrichment == EnterStage("papers_enter", "papers_enrichment", TRUE)

RunPapersEnrichment == EnrichmentStage("papers_enrichment", "synthesis_enter")

EnterSynthesis == EnterStage("synthesis_enter", "synthesis", TRUE)

SynthesisOutcomes == {"reused", "generated", "empty_html", "no_papers", "no_file", "raised"}

\* app.py 1954-1999: the synthesis; a reused and a generated synthesis
\* record the step (1957, 1982) and, whatever happens, the finally clause
\* records it (1999).
RunSynthesis ==
    /\ s_pc = "synthesis"
    /\ \E outcome \in SynthesisOutcomes :
         /\ outcome = "reused" => reuse_existing
         /\ completed_steps' =
              ensure_step(IF outcome \in {"reused", "generated"}
                          THEN ensure_step(completed_steps, "synthesis")
                          ELSE completed_steps, "synthesis")
         /\ IF outcome = "raised"
            THEN StageRaised("synthesis", "website_enter")
            ELSE /\ warnings' = IF outcome \in {"reused", "generated"} THEN warnings
                                ELSE warnings \cup {"synthesis_skipped"}
                 /\ s_pc' = "website_enter"
                 /\ UNCHANGED <<status, error>>
    /\ UNCHANGED <<reuse_existing, max_workers, run, prev_run, completed_count, saved_new,
                   current_step, step_trace, papers_file_exists>>
    /\ UNCHANGED <<avars, pvars, fvars>>

EnterWebsite == EnterStage("website_enter", "website", FALSE)

\* app.py 2006-2025: the website, then the status 'completed'.
RunWebsite ==
    /\ s_pc = "website"
    /\ \E raised \in BOOLEAN :
         IF raised
         THEN LET handler == stage_handler("website") IN
              IF handler.reraise
              THEN /\ Fatal(StageWarning("website"))
                   /\ UNCHANGED <<warnings, completed_steps>>
              ELSE /\ warnings' = warnings \cup {StageWarning("website")}
                   /\ status' = "completed"
                   /\ s_pc' = "end"
                   /\ UNCHANGED <<error, completed_steps>>
         ELSE /\ completed_steps' = ensure_step(completed_steps, "website")
              /\ status' = "completed"
              /\ s_pc' = "end"
              /\ UNCHANGED <<error, warnings>>
    /\ UNCHANGED <<reuse_existing, max_workers, run, prev_run, completed_count, saved_new,
                   current_step, step_trace, papers_file_exists>>
    /\ UNCHANGED <<avars, pvars, fvars>>

NextPipeline ==
    \/ ReuseBranch
    \/ Login
    \/ Sessions
    \/ Papers
    \/ Save
    \/ EnterAuthors
    \/ RunAuthors
    \/ EnterPapersEnrichment
    \/ RunPapersEnrichment
    \/ EnterSynthesis
    \/ RunSynthesis
    \/ EnterWebsite
    \/ RunWebsite

\* ------------------------------------------------------------------ specs
\* No function call is under way.
NoReturn == [kind |-> "none"]

FunctionsOff ==
    /\ arg = <<>>
    /\ ret = NoReturn
    /\ f_pc = "off"

\* No run is under way: the state of the specifications of single functions.
RunOff ==
    /\ reuse_existing = FALSE
    /\ max_workers = 1
    /\ run = 1
    /\ prev_run = NoPrevRun
    /\ completed_count = 0
    /\ saved_new = 0
    /\ warnings = {}

AllOff == RunOff /\ AuthorStageOff /\ PaperStageOff /\ SessionOff

InitAuthors == RunInit /\ AuthorStageInit /\ PaperStageOff /\ SessionOff /\ FunctionsOff

InitPapers == RunInit /\ PaperStageInit /\ AuthorStageOff /\ SessionOff /\ FunctionsOff

InitStages == InitAuthors \/ InitPapers

InitPipeline ==
    /\ RunInit /\ prev_run = NoPrevRun /\ AuthorStageOff /\ PaperStageOff /\ SessionInit
    /\ FunctionsOff

NextStages == NextAuthors \/ NextPapers

SpecAuthors == InitAuthors /\ [][NextAuthors]_vars

SpecPapers == InitPapers /\ [][NextPapers]_vars

SpecStages == InitStages /\ [][NextStages]_vars

SpecPipeline == InitPipeline /\ [][NextPipeline]_vars

\* The coordinator and the two enrichment stages side by side.
InitAll == InitStages \/ InitPipeline

NextAll == NextStages \/ NextPipeline

SpecAll == InitAll /\ [][NextAll]_vars

\* ------------------------------------------------------ model responses
\* The text of a model's reply, as a sequence of pieces: a brace, the
\* members of a complete answer ("k": "affiliation": "MIT", "role": ...), a
\* key that introduces a nested object ("q": "extra":), prose ("x"), a JSON
\* value that is no object and holds no brace ("v": ["unknown"]), a code
\* fence ("F": ```) and a json code fence ("J": ```json).
Tokens == {"{", "}", "k", "q", "x", "v", "F", "J"}

MaxText == 5

ResponseTexts == SeqsUpTo(Tokens, MaxText)

\* str.find over pieces: the first index from `from` on that holds a piece
\* of S, 0 when there is none.
FirstIndex(text, S, from) ==
    LET hits == {i \in from..Len(text) : text[i] \in S} IN
    IF hits = {} THEN 0 ELSE CHOOSE i \in hits : \A j \in hits : i <= j

\* text.split(fence)[1].split('```')[0]: what stands between the first fence
\* and the next one.
Fenced(text, fence, closing) ==
    LET a == FirstIndex(text, {fence}, 1)
        b == FirstIndex(text, closing, a + 1)
    IN  SubSeq(text, a + 1, IF b = 0 THEN Len(text) ELSE b - 1)

\* Both agents first cut a fenced block out of the reply.
StripFence(text) ==
    IF "J" \in Range(text) THEN Fenced(text, "J", {"J", "F"})
    ELSE IF "F" \in Range(text) THEN Fenced(text, "F", {"F"})
    ELSE text

\* The texts json.loads accepts as an object: {}, {k} and {q object}.
RECURSIVE IsObject(_)
IsObject(t) ==
    /\ Len(t) >= 2
    /\ t[1] = "{"
    /\ t[Len(t)] = "}"
    /\ LET inner == SubSeq(t, 2, Len(t) - 1) IN
         \/ inner = <<>>
         \/ inner = <<"k">>
         \/ Len(inner) >= 3 /\ inner[1] = "q" /\ IsObject(Tail(inner))

\* json.loads: an object with its members, another JSON value, or a
\* JSONDecodeError.
json_loads(t) ==
    IF IsObject(t)
    THEN [kind |-> "dict", members |-> IF Len(t) = 2 THEN {} ELSE {t[2]}]
    ELSE IF t = <<"v">> THEN [kind |-> "nondict", members |-> {}]
    ELSE [kind |-> "error", members |-> {}]

\* re.search(r'\{[^}]+\}', text, re.DOTALL): from the first opening brace
\* that is not directly followed by a closing one, up to the next closing
\* brace; <<>> when no such span exists.
RegexObject(t) ==
    LET starts == {i \in 1..Len(t) :
                     /\ t[i] = "{"
                     /\ FirstIndex(t, {"}"}, i + 1) >= i + 2}
    IN  IF starts = {} THEN <<>>
        ELSE LET i == CHOOSE a \in starts : \A b \in starts : a <= b
             IN  SubSeq(t, i, FirstIndex(t, {"}"}, i + 1))

AuthorObject(members) ==
    IF "k" \in members THEN AuthorInfoFull.value
    ELSE IF "q" \in members THEN [extra |-> "o"]
    ELSE EmptyDict

\* get_author_info from the reply text on (lines 113-153): None for an empty
\* reply and for a JSONDecodeError, otherwise whatever json.loads returned.
get_author_info(text) ==
    IF text = <<>> THEN AuthorInfoNone
    ELSE LET stripped == StripFence(text)
             json_match == RegexObject(stripped)
             loaded == json_loads(IF json_match # <<>> THEN json_match ELSE stripped)
         IN  CASE loaded.kind = "dict" ->
                    [kind |-> "dict", value |-> AuthorObject(loaded.members)]
               [] loaded.kind = "nondict" -> AuthorInfoNotObject
               [] loaded.kind = "error" -> AuthorInfoNone

\* The brace matching of _parse_json_response: the index at which the count
\* of braces opened since start returns to zero, 0 when it never does.
MatchingBrace(t, start) ==
    LET opened(i) == Cardinality({j \in start..i : t[j] = "{"})
        closed(i) == Cardinality({j \in start..i : t[j] = "}"})
        ends == {i \in start..Len(t) : opened(i) = closed(i)}
    IN  IF ends = {} THEN 0 ELSE CHOOSE i \in ends : \A j \in ends : i <= j

PaperObject(members) ==
    IF "k" \in members THEN EnrichmentFull.value
    ELSE IF "q" \in members THEN [extra |-> "o"]
    ELSE EmptyDict

\* _parse_json_response: None without an opening brace, with unmatched
\* braces, for a JSONDecodeError and for a value that is no object.
parse_json_response(response_text) ==
    LET stripped == StripFence(response_text)
        start == FirstIndex(stripped, {"{"}, 1)
        end == IF start = 0 THEN 0 ELSE MatchingBrace(stripped, start)
    IN  IF start = 0 \/ end = 0 THEN EnrichmentNone
        ELSE LET enrichment == json_loads(SubSeq(stripped, start, end)) IN
             IF enrichment.kind = "dict"
             THEN [kind |-> "dict", value |-> PaperObject(enrichment.members)]
             ELSE EnrichmentNone

\* enrich_paper from the reply text on (lines 200-213).
enrich_paper(text) == IF text = <<>> THEN EnrichmentNone ELSE parse_json_response(text)

InitResponses ==
    /\ AllOff
    /\ arg \in ResponseTexts
    /\ ret = NoReturn
    /\ f_pc = "ready"

\* The author worker on one reply.
AuthorWorkerOnReply ==
    /\ f_pc = "ready"
    /\ ret' = [kind |-> "author",
               result |-> enrich_single_author(KeyAuthor("a1"), get_author_info(arg))]
    /\ f_pc' = "returned"
    /\ UNCHANGED <<rvars, avars, pvars, svars, arg>>

\* The paper worker on one reply.
PaperWorkerOnReply ==
    /\ f_pc = "ready"
    /\ ret' = [kind |-> "paper",
               result |-> enrich_single_paper(CleanedPaper("t1"), enrich_paper(arg))]
    /\ f_pc' = "returned"
    /\ UNCHANGED <<rvars, avars, pvars, svars, arg>>

NextResponses == AuthorWorkerOnReply \/ PaperWorkerOnReply

SpecResponses == InitResponses /\ [][NextResponses]_vars

\* ------------------------------------------------------- external calls
\* What one external call does: it returns ("ok"), the subprocess exits with
\* a non-zero code or the API answers with an error status ("nonzero"), it
\* times out ("timeout"), or it raises another exception ("error").
CallOutcomes == {"ok", "nonzero", "timeout", "error"}

\* The outcomes of the calls a worker may make are drawn in advance.
MaxCalls == 2

CallScripts == {s \in SeqsUpTo(CallOutcomes, MaxCalls) : Len(s) = MaxCalls}

\* The workers of the web application call OpenRouter; the workers of the
\* command-line enrichers run the claude program.
OpenRouterWorkers == {"openrouter_author", "openrouter_paper"}

SubprocessWorkers == {"claude_author", "claude_paper"}

max_retries == 2

\* timeout_seconds = 120 if attempt == 0 else 180 (authors),
\* timeout_seconds = 300 if attempt == 0 else 420 (papers).
timeout_seconds(worker, attempt) ==
    IF worker = "claude_author"
    THEN IF attempt = 0 THEN 120 ELSE 180
    ELSE IF attempt = 0 THEN 300 ELSE 420

InitCalls ==
    /\ AllOff
    /\ arg \in CallScripts
    /\ \E worker \in OpenRouterWorkers \cup SubprocessWorkers :
         ret = [kind |-> worker, attempt |-> 0, calls |-> 0,
                timeouts |-> <<>>, result |-> "pending"]
    /\ f_pc = "calling"

\* get_author_info / enrich_paper of the OpenRouter agents: one call of the
\* client inside one try; a timeout or any other exception returns None.
OpenRouterCall ==
    /\ f_pc = "calling"
    /\ ret.kind \in OpenRouterWorkers
    /\ ret' = [ret EXCEPT !.calls = @ + 1,
                          !.result = IF arg[1] = "ok" THEN "reply" ELSE "None"]
    /\ f_pc' = "returned"
    /\ UNCHANGED <<rvars, avars, pvars, svars, arg>>

\* One pass of `for attempt in range(max_retries)` around subprocess.run.
SubprocessAttempt ==
    /\ f_pc = "calling"
    /\ ret.kind \in SubprocessWorkers
    /\ ret.attempt < max_retries
    /\ LET attempt == ret.attempt
           outcome == arg[attempt + 1]
           called == [ret EXCEPT !.calls = @ + 1,
                                 !.timeouts = Append(@, timeout_seconds(ret.kind, attempt))]
       IN  IF outcome = "ok"
           THEN /\ ret' = [called EXCEPT !.result = "reply"]
                /\ f_pc' = "returned"
           ELSE IF attempt < max_retries - 1
           THEN /\ ret' = [called EXCEPT !.attempt = attempt + 1]
                /\ f_pc' = "calling"
           ELSE /\ ret' = [called EXCEPT !.result = "None"]
                /\ f_pc' = "returned"
    /\ UNCHANGED <<rvars, avars, pvars, svars, arg>>

NextCalls == OpenRouterCall \/ SubprocessAttempt

SpecCalls == InitCalls /\ [][NextCalls]_vars

\* ------------------------------------------------------------ clean_papers
\* Titles as the scraper delivers them: two spellings of one title that
\* differ in case and in surrounding blanks, another title, and a blank one.
RawTitles == {"A", " a", "B", " "}

\* str.strip and str.lower on these titles.
strip(s) == CASE s = " a" -> "a" [] s = " " -> "" [] OTHER -> s

lower(s) ==
    CASE s = "A" -> "a" [] s = "B" -> "b"
      [] s = "True" -> "true" [] s = "TRUE" -> "true" [] s = "False" -> "false"
      [] s = "Yes" -> "yes" [] s = "Y" -> "y" [] s = "Best Paper" -> "best paper"
      [] OTHER -> s

\* A float: a number, counted in units of 0.00001 for a fractional score and
\* in units of 0.01 for a percentage, or nan.
Number(v) == [kind |-> "number", v |-> v]

NaN == [kind |-> "nan", v |-> 0]

\* relevance_score as delivered: 0.3, 0.50004, 0.9, nan, null, and a text
\* that float() rejects.
RawScores ==
    {Number(30000), Number(50004), Number(90000), NaN,
     [kind |-> "none", v |-> 0], [kind |-> "text", v |-> 0]}

\* A scraped paper; relevance_score may be absent.
ScrapedPapers ==
    {[title |-> t, relevance_score |-> s] : t \in RawTitles, s \in RawScores}
      \cup {[title |-> t] : t \in RawTitles}

MaxInput == 3

\* float(score_raw), with `except (TypeError, ValueError): score = 0.0`.
to_float(score_raw) ==
    IF score_raw.kind \in {"number", "nan"} THEN score_raw ELSE Number(0)

\* round(score * 100, 2): from units of 0.00001 to units of 0.01 percent,
\* to the nearest, a tie to the even neighbour; nan stays nan.
score_pct(score) ==
    IF score.kind = "nan" THEN NaN
    ELSE LET q == score.v \div 10
             r == score.v % 10
         IN  Number(IF r < 5 THEN q
                    ELSE IF r > 5 THEN q + 1
                    ELSE IF q % 2 = 0 THEN q ELSE q + 1)

\* score_pct <= 50; a comparison with nan is false.
at_most_50(pct) == pct.kind = "number" /\ pct.v <= 5000

\* The loop of clean_papers over the scraped papers.
RECURSIVE clean_loop(_, _)
clean_loop(papers, acc) ==
    IF papers = <<>> THEN acc
    ELSE LET paper == Head(papers)
             raw == Get(paper, "title", NoneVal)
             title == strip(IF Truthy(raw) THEN raw ELSE "")
             title_key == lower(title)
             pct == score_pct(to_float(Get(paper, "relevance_score", Number(0))))
         IN  clean_loop(Tail(papers),
               IF title = "" THEN acc
               ELSE IF title_key \in acc.seen_titles
               THEN [acc EXCEPT !.dropped_dupes = @ + 1]
               ELSE IF at_most_50(pct)
               THEN [acc EXCEPT !.dropped_low = @ + 1]
               ELSE [acc EXCEPT
                       !.cleaned = Append(@, [title |-> title, relevance_score |-> pct]),
                       !.seen_titles = @ \cup {title_key}])

clean_papers_UncountedDupes(papers) ==
    [clean_loop(papers, [seen_titles |-> {}, cleaned |-> <<>>,
                         dropped_dupes |-> 0, dropped_low |-> 0])
       EXCEPT !.dropped_dupes = 0]

clean_papers(papers) ==
    clean_loop(papers, [seen_titles |-> {}, cleaned |-> <<>>,
                        dropped_dupes |-> 0, dropped_low |-> 0])

InitClean ==
    /\ AllOff
    /\ arg \in SeqsUpTo(ScrapedPapers, MaxInput)
    /\ ret = NoReturn
    /\ f_pc = "ready"

\* app.py 1575: cleaned_papers, dropped_dupes, dropped_low = clean_papers(all_papers)
CleanPapers ==
    /\ f_pc = "ready"
    /\ LET r == clean_papers(arg) IN
         ret' = [kind |-> "clean_papers", cleaned |-> r.cleaned,
                 dropped_dupes |-> r.dropped_dupes, dropped_low |-> r.dropped_low,
                 written |-> <<>>]
    /\ f_pc' = "returned"
    /\ UNCHANGED <<rvars, avars, pvars, svars, arg>>

\* app.py 1584-1587: the papers file receives the cleaned papers.
WritePapersFile ==
    /\ f_pc = "returned"
    /\ ret.kind = "clean_papers"
    /\ ret' = [ret EXCEPT !.written = ret.cleaned]
    /\ f_pc' = "saved"
    /\ UNCHANGED <<rvars, avars, pvars, svars, arg>>

NextClean == CleanPapers \/ WritePapersFile

SpecClean == InitClean /\ [][NextClean]_vars

\* ------------------------------------------------- entries of the authors file
\* The values an affiliation or a role can hold: an institution, the empty
\* text, null and 'Unknown'.
FieldValues == {"MIT", "", NoneVal, "Unknown"}

\* A JSON object with the enrichment keys S.
InfoObject(S, affiliation, role) ==
    [k \in S |-> CASE k = "affiliation" -> affiliation
                   [] k = "role" -> role
                   [] OTHER -> NoneVal]

InfoObjects ==
    {InfoObject(S, a, r) : S \in SUBSET REQUIRED_FIELDS, a \in FieldValues, r \in FieldValues}

\* An entry of the enriched-authors file: an author's name and any of the
\* enrichment keys.
AuthorEntries == {Put(o, "name", "a1") : o \in InfoObjects}

\* app.py 1443-1461, the body of the loop in the reuse branch.
ClassifyAuthorReuseBranch(author) ==
    IF ~(\A field \in {"affiliation", "role", "photo_url", "profile_url"} :
           field \in DOMAIN author)
    THEN "Missing"
    ELSE IF /\ Truthy(Get(author, "affiliation", NoneVal))
            /\ Get(author, "affiliation", NoneVal) # "Unknown"
            /\ Truthy(Get(author, "role", NoneVal))
            /\ Get(author, "role", NoneVal) # "Unknown"
    THEN "Complete"
    ELSE "Attempted"

InitEntries ==
    /\ AllOff
    /\ arg \in AuthorEntries
    /\ ret = NoReturn
    /\ f_pc = "ready"

\* The reuse branch (app.py 1436-1466) loads a file that holds the entry.
LoadAtReuseBranch ==
    /\ f_pc = "ready"
    /\ arg \in AuthorEntries
    /\ LET class == ClassifyAuthorReuseBranch(arg) IN
         ret' = [kind |-> "reuse_branch",
                 dicts |-> [existing_enriched |->
                              IF class = "Complete"
                              THEN Put(EmptyDict, arg.name, arg) ELSE EmptyDict,
                            previously_attempted |->
                              IF class = "Attempted"
                              THEN Put(EmptyDict, arg.name, arg) ELSE EmptyDict]]
    /\ f_pc' = "returned"
    /\ UNCHANGED <<rvars, avars, pvars, svars, arg>>

\* The author stage (app.py 1609-1636) loads a file that holds the entry.
LoadAtAuthorStage ==
    /\ f_pc = "ready"
    /\ arg \in AuthorEntries
    /\ ret' = [kind |-> "author_stage",
               dicts |-> LoadExistingAuthors(JsonFile(<<arg>>), NoPriorState)]
    /\ f_pc' = "returned"
    /\ UNCHANGED <<rvars, avars, pvars, svars, arg>>

NextEntries == LoadAtReuseBranch \/ LoadAtAuthorStage

SpecEntries == InitEntries /\ [][NextEntries]_vars

\* ------------------------------------------- an author from worker to reuse
\* What get_author_info hands to the worker: None, a JSON value that is no
\* object, or an object with any of the enrichment keys.
WorkerInputs ==
    {AuthorInfoNone, AuthorInfoNotObject}
      \cup {[kind |-> "dict", value |-> o] : o \in InfoObjects}

InitOutcomes ==
    /\ AllOff
    /\ arg \in WorkerInputs
    /\ ret = NoReturn
    /\ f_pc = "ready"

\* app.py 1700-1717 and 1729-1749: the worker runs, the dispatcher collects
\* its result and the stage writes the file.
EnrichAndSave ==
    /\ f_pc = "ready"
    /\ arg \in WorkerInputs
    /\ LET result == enrich_single_author(KeyAuthor("a1"), arg)
           collected == collect_author(result, <<>>)
       IN  ret' = [kind |-> "saved", raised |-> result.raised,
                   file |-> JsonFile(collected.newly), class |-> "pending"]
    /\ f_pc' = "returned"
    /\ UNCHANGED <<rvars, avars, pvars, svars, arg>>

\* app.py 1609-1636: the next run, with reuse, loads the file.
NextRunLoads ==
    /\ f_pc = "returned"
    /\ ret.kind = "saved"
    /\ LET dicts == LoadExistingAuthors(ret.file, NoPriorState) IN
         ret' = [ret EXCEPT
                   !.kind = "loaded",
                   !.class = IF "a1" \in DOMAIN dicts.existing_enriched THEN "Complete"
                             ELSE IF "a1" \in DOMAIN dicts.previously_attempted
                             THEN "Attempted"
                             ELSE "Missing"]
    /\ f_pc' = "classified"
    /\ UNCHANGED <<rvars, avars, pvars, svars, arg>>

NextOutcomes == EnrichAndSave \/ NextRunLoads

SpecOutcomes == InitOutcomes /\ [][NextOutcomes]_vars

\* ------------------------------------- one session: authors, then papers
\* The author stage and the paper stage as extract_papers runs them, one
\* after the other on the coordinating thread.
AuthorStageOver_NoJoin == a_pc \in {"pool", "done", "failed"}

\* app.py 1721-1757: control leaves the author stage through the end of the
\* try block, after the `with ThreadPoolExecutor` block has joined its
\* workers and the authors file is saved, or through the stage's handler.
AuthorStageOver == a_pc \in {"done", "failed"}

\* The enriched-papers files a session may find: none, an unreadable one,
\* and one that holds the complete record of the first paper.
SessionPaperFiles ==
    {AbsentPapersFile, CorruptPapersFile,
     PapersDocument(<<"c0">>, <<CompletePaper(TitleOrder[1], "u1")>>)}

InitSession ==
    /\ RunInit
    /\ AuthorStageInit
    /\ papers_enrichment_file \in SessionPaperFiles
    /\ cleaned_papers \in CleanedPaperLists
    /\ existing_enriched_papers = EmptyDict
    /\ existing_categories = <<>>
    /\ already_enriched_papers = <<>>
    /\ papers_to_enrich = <<>>
    /\ categories = <<>>
    /\ future_to_paper = <<>>
    /\ paper_calls = <<>>
    /\ newly_enriched_papers = <<>>
    /\ p_pc = "waiting"
    /\ SessionOff
    /\ FunctionsOff

\* app.py 1759-1770: the coordinator enters the paper stage.
PaperStageBegins ==
    /\ AuthorStageOver
    /\ p_pc = "waiting"
    /\ p_pc' = "start"
    /\ prev_run' = NoPrevPaperRun
    /\ completed_count' = 0
    /\ saved_new' = 0
    /\ UNCHANGED <<reuse_existing, max_workers, run, warnings>>
    /\ UNCHANGED <<papers_enrichment_file, cleaned_papers, existing_enriched_papers,
                   existing_categories, already_enriched_papers, papers_to_enrich,
                   categories, future_to_paper, paper_calls, newly_enriched_papers>>
    /\ UNCHANGED <<avars, svars, fvars>>

NextSession ==
    \/ AuthorLoadAndPartition
    \/ AuthorSaveAllReused
    \/ AuthorSubmit
    \/ AuthorWorkerStart
    \/ AuthorWorkerFinish
    \/ AuthorCollect
    \/ AuthorFinalSave
    \/ PaperStageBegins
    \/ PaperLoadAndPartition
    \/ PaperSaveAllReused
    \/ PaperSubmit
    \/ PaperWorkerStart
    \/ PaperWorkerFinish
    \/ PaperCollect
    \/ PaperFinalSave

SpecSession == InitSession /\ [][NextSession]_vars

\* ------------------------------------------- sessions of one conference
\* POST /api/extract: each request builds its file names from the conference
\* label and starts a thread that runs extract_papers. A label is a sequence
\* of characters, the en dash and the em dash written by name.
MaxSessions == 2

ConferenceNames ==
    { <<>>,
      <<"N", "1">>,
      <<"N", "1", " ", "-", " ", "X">>,
      <<"n", "1", "en-dash", "Y">>,
      <<"I", "1">> }

PaperModels == {NoneVal, "openai/gpt-5"}

Requests == [conference_name : ConferenceNames, paper_model : PaperModels]

\* The hyphen and the two dashes replace() turns into a hyphen.
Dashes == {"-", "en-dash", "em-dash"}

LowerChar(ch) == CASE ch = "N" -> "n" [] ch = "I" -> "i" [] ch = "X" -> "x"
                   [] ch = "Y" -> "y" [] OTHER -> ch

IsAlnum(ch) == ch \notin Dashes \cup {" "}

RECURSIVE BeforeDash(_)
BeforeDash(name) ==
    IF name = <<>> \/ Head(name) \in Dashes THEN <<>>
    ELSE <<Head(name)>> \o BeforeDash(Tail(name))

RECURSIVE LowerAlnum(_)
LowerAlnum(chars) ==
    IF chars = <<>> THEN <<>>
    ELSE IF IsAlnum(Head(chars)) THEN <<LowerChar(Head(chars))>> \o LowerAlnum(Tail(chars))
    ELSE LowerAlnum(Tail(chars))

\* app.py 1181-1189.
conference_file_stem(conference_name) ==
    IF conference_name = <<>> THEN <<"conference">>
    ELSE LET cleaned == LowerAlnum(BeforeDash(conference_name))
         IN  IF cleaned = <<>> THEN <<"conference">> ELSE cleaned

\* app.py 1204-1209, for the model ids a request carries.
model_slug(model_id) ==
    CASE model_id = NoneVal -> "model"
      [] model_id = "openai/gpt-5" -> "openai-gpt-5"
      [] model_id = "openai/gpt-5-mini" -> "openai-gpt-5-mini"

\* app.py 1192-1201 and, for the enriched-papers file, 1761-1764.
build_output_files(conference_name, paper_model) ==
    LET stem == conference_file_stem(conference_name)
    IN  [papers |-> <<stem, "_papers.csv">>,
         authors |-> <<stem, "_enriched_authors.json">>,
         enriched_papers |-> <<stem, "_enriched_papers_", model_slug(paper_model), ".json">>]

\* The files extract_papers writes, in the order of its stages (app.py 1584,
\* 1748, 1899): each is opened with open(path, 'w') by the session's thread.
WriteOrder == <<"papers", "authors", "enriched_papers">>

InitSessions ==
    /\ AllOff
    /\ arg \in [1..MaxSessions -> Requests]
    /\ ret = [kind |-> "sessions", threads |-> <<>>]
    /\ f_pc = "serving"

\* app.py 1343-1379: start_extraction; nothing looks at the sessions that
\* are already running.
start_extraction ==
    /\ f_pc = "serving"
    /\ Len(ret.threads) < MaxSessions
    /\ LET data == arg[Len(ret.threads) + 1]
           paper_model == IF data.paper_model = NoneVal THEN "openai/gpt-5-mini"
                          ELSE data.paper_model
       IN  ret' = [ret EXCEPT !.threads =
                     Append(@, [output_files |-> build_output_files(data.conference_name,
                                                                    paper_model),
                                writer |-> "coordinator",
                                next |-> 1, open |-> FALSE])]
    /\ UNCHANGED <<rvars, avars, pvars, svars, arg, f_pc>>

SessionOpensFile ==
    /\ f_pc = "serving"
    /\ \E i \in 1..Len(ret.threads) :
         /\ ret.threads[i].next <= Len(WriteOrder)
         /\ ~ret.threads[i].open
         /\ ret' = [ret EXCEPT !.threads[i].open = TRUE]
    /\ UNCHANGED <<rvars, avars, pvars, svars, arg, f_pc>>

SessionClosesFile ==
    /\ f_pc = "serving"
    /\ \E i \in 1..Len(ret.threads) :
         /\ ret.threads[i].open
         /\ ret' = [ret EXCEPT !.threads[i].open = FALSE, !.threads[i].next = @ + 1]
    /\ UNCHANGED <<rvars, avars, pvars, svars, arg, f_pc>>

NextSessions == start_extraction \/ SessionOpensFile \/ SessionClosesFile

SpecSessions == InitSessions /\ [][NextSessions]_vars

\* ------------------------------------------------------------ key authors
\* analyze_authors over the cleaned papers and the filter that keeps the
\* authors the author stage works on. A paper's author string is the list
\* of its comma-separated parts; a score is a percentage in units of 0.01.
HIGHLY_RELEVANT_THRESHOLD == 85

AuthorStrings ==
    { <<>>,
      <<"a1">>,
      <<" a2", "a1">>,
      <<"a3.", "et al">>,
      <<"a1", " a2", "a3.", "a4">>,
      <<"a4", "", "..." >> }

PaperScores == {Number(8499), Number(8500), NaN, [kind |-> "text", v |-> 0]}

ScoredPapers == [authors : AuthorStrings, relevance_score : PaperScores]

MaxScored == 2

\* utils.py 10-35: strip each part, skip '...' and 'et al', drop trailing
\* dots, skip what is left empty.
parse_part(part) ==
    CASE part = " a2" -> "a2"
      [] part = "a3." -> "a3"
      [] part \in {"...", "et al", "et al."} -> ""
      [] OTHER -> part

RECURSIVE parse_authors(_)
parse_authors(author_string) ==
    IF author_string = <<>> THEN <<>>
    ELSE LET author == parse_part(Head(author_string))
         IN  (IF author = "" THEN <<>> ELSE <<author>>) \o parse_authors(Tail(author_string))

\* utils.py 95-99: with first_last_only, the first, second and last author.
first_last(authors) ==
    IF Len(authors) > 3 THEN <<authors[1], authors[2], authors[Len(authors)]>>
    ELSE authors

NoStats == [order |-> <<>>, scores |-> EmptyDict]

RECURSIVE add_paper(_, _, _)
add_paper(authors, score, acc) ==
    IF authors = <<>> THEN acc
    ELSE LET author == Head(authors)
             seen == author \in DOMAIN acc.scores
         IN  add_paper(Tail(authors), score,
               [order |-> IF seen THEN acc.order ELSE Append(acc.order, author),
                scores |-> Put(acc.scores, author,
                               Append(Get(acc.scores, author, <<>>), score))])

RECURSIVE analyze_loop(_, _)
analyze_loop(papers, acc) ==
    IF papers = <<>> THEN acc
    ELSE analyze_loop(Tail(papers),
           add_paper(first_last(parse_authors(Head(papers).authors)),
                     to_float(Head(papers).relevance_score), acc))

is_highly_relevant(score) ==
    score.kind = "number" /\ score.v >= HIGHLY_RELEVANT_THRESHOLD * 100

\* utils.py 38-144: one statistics record per author, in the order of the
\* authors' first appearance.
analyze_authors(papers) ==
    LET stats == analyze_loop(papers, NoStats)
    IN  [i \in 1..Len(stats.order) |->
           LET scores == stats.scores[stats.order[i]]
           IN  [name |-> stats.order[i],
                paper_count |-> Len(scores),
                highly_relevant_count |->
                  Cardinality({k \in 1..Len(scores) : is_highly_relevant(scores[k])})]]

is_key_author_Any(a) == a.highly_relevant_count >= 0

\* app.py 1646: the filter of key_authors.
is_key_author(a) == a.highly_relevant_count > 0

RECURSIVE filter_key_authors(_)
filter_key_authors(author_stats) ==
    IF author_stats = <<>> THEN <<>>
    ELSE (IF is_key_author(Head(author_stats)) THEN <<Head(author_stats)>> ELSE <<>>)
         \o filter_key_authors(Tail(author_stats))

InitKeyAuthors ==
    /\ AllOff
    /\ arg \in SeqsUpTo(ScoredPapers, MaxScored)
    /\ ret = [kind |-> "key_authors", key_authors |-> <<>>, dispatched |-> <<>>,
              written |-> <<>>]
    /\ f_pc = "analyse"

\* app.py 1643-1646.
AnalyzeAndFilter ==
    /\ f_pc = "analyse"
    /\ ret' = [ret EXCEPT !.key_authors = filter_key_authors(analyze_authors(arg))]
    /\ f_pc' = "partition"
    /\ UNCHANGED <<rvars, avars, pvars, svars, arg>>

\* app.py 1650-1749: the partition against what the authors file gave, the
\* dispatch of authors_to_enrich and the authors the stage writes besides
\* the workers' results.
PartitionAndDispatch ==
    /\ f_pc = "partition"
    /\ \E complete \in SUBSET {"a1", "a3"}, attempted \in SUBSET {"a2"} :
         LET parts == PartitionAuthors(ret.key_authors,
                                       [n \in complete |-> CompleteAuthor(n)],
                                       [n \in attempted |-> AttemptedAuthor(n)],
                                       NoAuthorPartition)
         IN  ret' = [ret EXCEPT !.dispatched = parts.authors_to_enrich,
                                !.written = parts.already_enriched_authors
                                            \o parts.skipped_not_found_authors]
    /\ f_pc' = "dispatched"
    /\ UNCHANGED <<rvars, avars, pvars, svars, arg>>

NextKeyAuthors == AnalyzeAndFilter \/ PartitionAndDispatch

SpecKeyAuthors == InitKeyAuthors /\ [][NextKeyAuthors]_vars

\* ------------------------------------------- the papers file's booleans
\* The five flags of a paper through csv.DictWriter and load_existing_papers.
\* A flag as scraped is what the poster's JSON gave: a boolean, null, a text
\* or a number.
BOOL_FIELDS == {"award", "bookmarked", "liked", "disliked", "pinned"}

PyBool(b) == [kind |-> "bool", b |-> b, s |-> ""]

PyNone == [kind |-> "none", b |-> FALSE, s |-> ""]

PyText(s) == [kind |-> "str", b |-> FALSE, s |-> s]

FlagValues == {PyBool(TRUE), PyBool(FALSE), PyNone, PyText("Best Paper"), PyText("1")}

\* The cells a papers file may hold for a flag, written by a run or by hand.
FlagCells == {"True", "False", "", "TRUE", "Yes", "Y", "1", "0", "no"}

\* The csv writer's text of a value: '' for None, str(value) otherwise.
csv_cell(value) ==
    CASE value.kind = "bool" -> IF value.b THEN "True" ELSE "False"
      [] value.kind = "none" -> ""
      [] value.kind = "str" -> value.s

\* app.py 1578-1587: one row of the file.
write_row(paper) == [field \in BOOL_FIELDS |-> csv_cell(paper[field])]

load_bool_NoLower(val) == val \in {"true", "1", "yes", "y"}

\* app.py 1409-1411.
load_bool(val) == lower(val) \in {"true", "1", "yes", "y"}

\* app.py 1399-1413: one row loaded back.
load_row(row) == [field \in BOOL_FIELDS |-> load_bool(row[field])]

NoRow == [field \in BOOL_FIELDS |-> ""]

NoFlags == [field \in BOOL_FIELDS |-> FALSE]

InitFlags ==
    /\ AllOff
    /\ \/ /\ arg \in [BOOL_FIELDS -> FlagValues]
          /\ ret = [kind |-> "flags", row |-> NoRow, loaded |-> NoFlags]
          /\ f_pc = "scraped"
       \/ /\ arg = [field \in BOOL_FIELDS |-> PyNone]
          /\ \E row \in [{"award", "liked"} -> FlagCells] :
               ret = [kind |-> "flags",
                      row |-> [field \in BOOL_FIELDS |->
                                 IF field \in DOMAIN row THEN row[field] ELSE "False"],
                      loaded |-> NoFlags]
          /\ f_pc = "on_disk"

WriteRow ==
    /\ f_pc = "scraped"
    /\ ret' = [ret EXCEPT !.row = write_row(arg)]
    /\ f_pc' = "written"
    /\ UNCHANGED <<rvars, avars, pvars, svars, arg>>

LoadRow ==
    /\ f_pc \in {"written", "on_disk"}
    /\ ret' = [ret EXCEPT !.loaded = load_row(ret.row)]
    /\ f_pc' = IF f_pc = "written" THEN "reloaded" ELSE "loaded"
    /\ UNCHANGED <<rvars, avars, pvars, svars, arg>>

NextFlags == WriteRow \/ LoadRow

SpecFlags == InitFlags /\ [][NextFlags]_vars

\* ------------------------------------------------- a worker and its record
\* The record a worker is handed and the record the needs-enrichment list
\* holds. A Python dict is an object: the worker of app.py works on
\* paper_data.copy() / author_data.copy(), a new object, while
\* process_single_author of enrich_authors.py assigns into the object it was
\* handed, which is the one the list holds.
WorkerSites == {"app_author", "app_paper", "cli_author"}

SubjectOf(site, n) ==
    IF site = "app_paper" THEN CleanedPaper(TitleOrder[n]) ELSE KeyAuthor(AuthorOrder[n])

RepliesOf(site) == IF site = "app_paper" THEN PaperEnrichments ELSE AuthorInfos

MaxSubjects == 4

\* enrich_authors.py 175-197: the assignments of process_single_author.
process_single_author(author, author_info) == enrich_single_author(author, author_info)

InitWorkers ==
    /\ AllOff
    /\ \E site \in WorkerSites, n \in 1..MaxSubjects :
         /\ \E reply \in RepliesOf(site) :
              arg = [site |-> site, subject |-> SubjectOf(site, n), reply |-> reply]
         /\ ret = [kind |-> "worker", listed |-> SubjectOf(site, n),
                   own |-> SubjectOf(site, n), same_object |-> FALSE,
                   raised |-> FALSE, merged |-> <<>>]
    /\ f_pc = "submitted"

\* The worker starts: app.py 1702 and 1854 copy the record, enrich_authors.py
\* 175 keeps the reference.
WorkerTakesRecord ==
    /\ f_pc = "submitted"
    /\ ret' = [ret EXCEPT !.same_object = arg.site = "cli_author"]
    /\ f_pc' = "taken"
    /\ UNCHANGED <<rvars, avars, pvars, svars, arg>>

\* The worker assigns the enrichment fields to its record.
WorkerAssignsFields ==
    /\ f_pc = "taken"
    /\ LET result == CASE arg.site = "app_author" ->
                            enrich_single_author(ret.own, arg.reply)
                       [] arg.site = "cli_author" ->
                            process_single_author(ret.own, arg.reply)
                       [] arg.site = "app_paper" ->
                            enrich_single_paper(ret.own, arg.reply)
           written == IF arg.site = "app_paper" THEN result.paper ELSE result.author
       IN  ret' = [ret EXCEPT !.own = written,
                              !.listed = IF ret.same_object THEN written ELSE @,
                              !.raised = result.raised]
    /\ f_pc' = "returned"
    /\ UNCHANGED <<rvars, avars, pvars, svars, arg>>

\* The coordinator's as_completed loop appends the worker's result; a
\* worker's exception adds nothing in app.py.
CoordinatorMerges ==
    /\ f_pc = "returned"
    /\ ret' = [ret EXCEPT !.merged = IF ret.raised /\ arg.site # "cli_author"
                                     THEN @ ELSE Append(@, ret.own)]
    /\ f_pc' = "merged"
    /\ UNCHANGED <<rvars, avars, pvars, svars, arg>>

NextWorkers == WorkerTakesRecord \/ WorkerAssignsFields \/ CoordinatorMerges

SpecWorkers == InitWorkers /\ [][NextWorkers]_vars

\* ----------------------------------------------- nothing left to enrich
\* The branch each enrichment stage takes after its partition: the save of
\* the reused records when nothing needs enrichment, the worker pool
\* otherwise. The steps the scrape completed are already recorded.
StagesWithPartition == {"authors", "papers_enrichment"}

StepsBefore(stage) ==
    IF stage = "authors" THEN <<"login", "sessions", "papers", "save">>
    ELSE <<"login", "sessions", "papers", "save", "authors">>

all_reused_save_DropSkipped(stage, already, skipped, cats, steps) ==
    [file |-> IF stage = "authors" THEN JsonFile(already)
              ELSE PapersDocument(cats, already),
     completed_steps |-> ensure_step(steps, stage),
     enriched |-> Len(already)]

\* app.py 1682-1690 and 1832-1842.
all_reused_save(stage, already, skipped, cats, steps) ==
    [file |-> IF stage = "authors" THEN JsonFile(already \o skipped)
              ELSE PapersDocument(cats, already),
     completed_steps |-> ensure_step(steps, stage),
     enriched |-> Len(already \o skipped)]

InitBranch ==
    /\ AllOff
    /\ \/ arg \in [stage : {"authors"}, reuse : BOOLEAN, file : PriorAuthorFiles,
                   subjects : KeyAuthorLists]
       \/ arg \in [stage : {"papers_enrichment"}, reuse : BOOLEAN,
                   file : PriorPaperFiles, subjects : CleanedPaperLists]
    /\ ret = [kind |-> "branch", already |-> <<>>, skipped |-> <<>>, to_enrich |-> <<>>,
              categories |-> <<>>, file |-> arg.file, pool |-> FALSE, submitted |-> 0,
              completed_steps |-> StepsBefore(arg.stage), enriched |-> 0]
    /\ f_pc = "start"

\* app.py 1650-1672 and 1799-1830.
PartitionSubjects ==
    /\ f_pc = "start"
    /\ IF arg.stage = "authors"
       THEN \E csv_exists \in BOOLEAN :
              LET dicts == LoadAuthorState(arg.reuse, csv_exists, arg.file)
                  parts == PartitionAuthors(arg.subjects, dicts.existing_enriched,
                                            dicts.previously_attempted, NoAuthorPartition)
              IN  ret' = [ret EXCEPT !.already = parts.already_enriched_authors,
                                     !.skipped = parts.skipped_not_found_authors,
                                     !.to_enrich = parts.authors_to_enrich]
       ELSE \E generated \in GeneratedCategories :
              LET prior == LoadExistingPapers(arg.reuse, arg.file)
                  parts == PartitionPapers(arg.subjects, prior.existing_enriched_papers,
                                           NoPaperPartition)
              IN  ret' = [ret EXCEPT !.already = parts.already_enriched_papers,
                                     !.to_enrich = parts.papers_to_enrich,
                                     !.categories =
                                        IF reuse_categories(prior.existing_categories,
                                                            Len(parts.papers_to_enrich),
                                                            Len(arg.subjects))
                                        THEN prior.existing_categories ELSE generated]
    /\ f_pc' = "partitioned"
    /\ UNCHANGED <<rvars, avars, pvars, svars, arg>>

SaveAllReused ==
    /\ f_pc = "partitioned"
    /\ Len(ret.to_enrich) = 0
    /\ LET saved == all_reused_save(arg.stage, ret.already, ret.skipped, ret.categories,
                                    ret.completed_steps)
       IN  ret' = [ret EXCEPT !.file = saved.file,
                              !.completed_steps = saved.completed_steps,
                              !.enriched = saved.enriched]
    /\ f_pc' = "saved"
    /\ UNCHANGED <<rvars, avars, pvars, svars, arg>>

\* app.py 1721-1722 and 1902-1906: the pool and one call per subject.
CreatePool ==
    /\ f_pc = "partitioned"
    /\ Len(ret.to_enrich) # 0
    /\ ret' = [ret EXCEPT !.pool = TRUE, !.submitted = Len(ret.to_enrich)]
    /\ f_pc' = "pool"
    /\ UNCHANGED <<rvars, avars, pvars, svars, arg>>

NextBranch == PartitionSubjects \/ SaveAllReused \/ CreatePool

SpecBranch == InitBranch /\ [][NextBranch]_vars

\* ------------------------------------------------------- a session's log
\* ExtractionSession.log and get_new_logs. The pipeline thread (and the
\* workers' coordinator loop) append entries; a progress request runs
\* get_new_logs on the server's thread. Entries are numbered as appended.
MaxLogs == 3

MaxPolls == 3

InitLogs ==
    /\ AllOff
    /\ arg = <<>>
    /\ ret = [kind |-> "session_log", logs |-> <<>>, log_index |-> 0,
              new_logs |-> <<>>, delivered |-> <<>>, polls |-> 0]
    /\ f_pc = "idle"

\* app.py 1169-1170: self.logs.append(...), whatever the poller is doing.
Log ==
    /\ f_pc \in {"idle", "sliced"}
    /\ Len(ret.logs) < MaxLogs
    /\ ret' = [ret EXCEPT !.logs = Append(@, Len(@) + 1)]
    /\ UNCHANGED <<rvars, avars, pvars, svars, arg, f_pc>>

\* app.py 1173: new_logs = self.logs[self.log_index:]
GetNewLogsSlice ==
    /\ f_pc = "idle"
    /\ ret.polls < MaxPolls
    /\ ret' = [ret EXCEPT !.new_logs = SubSeq(ret.logs, ret.log_index + 1, Len(ret.logs)),
                          !.polls = @ + 1]
    /\ f_pc' = "sliced"
    /\ UNCHANGED <<rvars, avars, pvars, svars, arg>>

\* app.py 1174-1175: self.log_index = len(self.logs); return new_logs
GetNewLogsReturn ==
    /\ f_pc = "sliced"
    /\ ret' = [ret EXCEPT !.log_index = Len(ret.logs),
                          !.delivered = @ \o ret.new_logs,
                          !.new_logs = <<>>]
    /\ f_pc' = "idle"
    /\ UNCHANGED <<rvars, avars, pvars, svars, arg>>

NextLogs == Log \/ GetNewLogsSlice \/ GetNewLogsReturn

SpecLogs == InitLogs /\ [][NextLogs]_vars

\* --------------------------------------------------- the sessions registry
\* The module-level dict `sessions` and the ids start_extraction gives out.
\* The clock counts ticks of a fraction of a second; strftime('%Y%m%d_%H%M%S')
\* keeps the whole seconds.
TicksPerSecond == 2

MaxTicks == 4

MaxRequests == 3

strftime_seconds(now) == now \div TicksPerSecond

InitRegistry ==
    /\ AllOff
    /\ arg = <<>>
    /\ ret = [kind |-> "registry", now |-> 0, ids |-> <<>>, running |-> {},
              sessions |-> EmptyDict]
    /\ f_pc = "serving_requests"

ClockTick ==
    /\ f_pc = "serving_requests"
    /\ ret.now < MaxTicks
    /\ ret' = [ret EXCEPT !.now = @ + 1]
    /\ UNCHANGED <<rvars, avars, pvars, svars, arg, f_pc>>

\* app.py 1367-1379: the id, the ExtractionSession, its entry in the
\* registry and its thread. A session is named by its place in ret.ids.
RegisterSession ==
    /\ f_pc = "serving_requests"
    /\ Len(ret.ids) < MaxRequests
    /\ LET session_id == strftime_seconds(ret.now)
           session == Len(ret.ids) + 1
       IN  ret' = [ret EXCEPT !.ids = Append(@, session_id),
                              !.running = @ \cup {session},
                              !.sessions = Put(@, session_id, session)]
    /\ UNCHANGED <<rvars, avars, pvars, svars, arg, f_pc>>

\* The thread of a session ends; its entry stays in the registry.
SessionThreadEnds ==
    /\ f_pc = "serving_requests"
    /\ \E session \in ret.running : ret' = [ret EXCEPT !.running = @ \ {session}]
    /\ UNCHANGED <<rvars, avars, pvars, svars, arg, f_pc>>

NextRegistry == ClockTick \/ RegisterSession \/ SessionThreadEnds

SpecRegistry == InitRegistry /\ [][NextRegistry]_vars

\* ----------------------------------------------------------------- claims
AuthorsPartitioned == a_pc \in {"partitioned", "pool", "done"}

PapersPartitioned == p_pc \in {"partitioned", "pool", "done"}

\* C1: the partition step places every key author in exactly one of
\* already_enriched_authors, skipped_not_found_authors and authors_to_enrich,
\* and every cleaned paper in exactly one of already_enriched_papers and
\* papers_to_enrich, whatever the prior-state file holds.
C1_PartitionComplete ==
    /\ AuthorsPartitioned =>
         /\ \A n \in NamesOf(key_authors) :
              CountName(already_enriched_authors, n)
              + CountName(skipped_not_found_authors, n)
              + CountName(authors_to_enrich, n) = 1
         /\ Len(already_enriched_authors) + Len(skipped_not_found_authors)
            + Len(authors_to_enrich) = Len(key_authors)
    /\ PapersPartitioned =>
         /\ \A t \in TitlesOf(cleaned_papers) :
              CountTitle(already_enriched_papers, t) + CountTitle(papers_to_enrich, t) = 1
         /\ Len(already_enriched_papers) + Len(papers_to_enrich) = Len(cleaned_papers)

\* C1's case: a prior file with a Complete and an Attempted entry of one
\* name; that key author is reused and the other one needs enrichment.
C1_Witness ==
    /\ a_pc = "partitioned"
    /\ Len(already_enriched_authors) = 1
    /\ Len(authors_to_enrich) = 1
    /\ \E n \in NamesOf(key_authors) :
         /\ CountName(authors_file.data, n) = 2
         /\ \E i, j \in 1..Len(authors_file.data) :
              /\ ClassifyAuthor(authors_file.data[i]) = "Complete"
              /\ ClassifyAuthor(authors_file.data[j]) = "Attempted"

C3_OneRecordPerCandidate ==
    /\ a_pc = "done" =>
         /\ \A n \in NamesOf(key_authors) : CountName(authors_file.data, n) = 1
         /\ Len(authors_file.data) = Len(key_authors)
    /\ p_pc = "done" =>
         /\ \A t \in TitlesOf(cleaned_papers) :
              CountTitle(papers_enrichment_file.data.papers, t) = 1
         /\ Len(papers_enrichment_file.data.papers) = Len(cleaned_papers)

\* C4: a worker's exception does not leave the dispatcher loop: the stage
\* fails only before its pool exists, the counter counts every collected
\* future, raised or not, and a finished stage has collected all N futures
\* and written its final save.
C4_WorkerExceptionStaysInLoop ==
    /\ a_pc = "failed" => future_to_author = <<>>
    /\ a_pc = "pool" =>
         completed_count =
           Cardinality({i \in 1..Len(future_to_author) :
                          future_to_author[i].state = "collected"})
    /\ a_pc = "done" /\ authors_to_enrich # <<>> =>
         /\ completed_count = Len(authors_to_enrich)
         /\ AllCollected(future_to_author)
         /\ authors_file =
              JsonFile(already_enriched_authors \o skipped_not_found_authors
                       \o newly_enriched_authors)
    /\ p_pc = "failed" => future_to_paper = <<>>
    /\ p_pc = "done" /\ papers_to_enrich # <<>> =>
         /\ completed_count = Len(papers_to_enrich)
         /\ AllCollected(future_to_paper)
         /\ papers_enrichment_file =
              save_progress(categories, already_enriched_papers, newly_enriched_papers)

\* C4's case: the first collected worker raised, the second was collected
\* after it and the stage saved.
C4_Witness ==
    /\ a_pc = "done"
    /\ Len(authors_to_enrich) = 2
    /\ completed_count = 2
    /\ future_to_author[1].result.raised
    /\ Len(newly_enriched_authors) = 1

\* The entries of a file that are of one class, by name.
NamesOfClass(file, class) ==
    {file.data[i].name : i \in {j \in 1..Len(file.data) :
                                  ClassifyAuthor(file.data[j]) = class}}

\* C5: on a run with reuse, a key author whose entry in the prior file has
\* the four fields but no affiliation or no role is never placed in
\* authors_to_enrich (no call is made for it) and is placed in
\* skipped_not_found_authors, unless the file also holds a Complete entry of
\* the name, which then is reused.
C5_AttemptedIsSkipped ==
    reuse_existing /\ a_pc \in {"partitioned", "pool"} /\ authors_file.kind = "json" =>
      \A n \in NamesOf(key_authors) \cap NamesOfClass(authors_file, "Attempted") :
         /\ n \notin NamesOf(authors_to_enrich)
         /\ IF n \in NamesOfClass(authors_file, "Complete")
            THEN CountName(already_enriched_authors, n) = 1
            ELSE CountName(skipped_not_found_authors, n) = 1

\* C5's case: the second run finds the entry the first run wrote for an
\* author whose affiliation was found and whose role was not, and skips it
\* while it dispatches another author.
C5_Witness ==
    /\ reuse_existing
    /\ run = 2
    /\ a_pc = "pool"
    /\ \E i \in 1..Len(skipped_not_found_authors) :
         /\ skipped_not_found_authors[i].affiliation = "MIT"
         /\ skipped_not_found_authors[i].role = "Unknown"
    /\ authors_to_enrich # <<>>

\* The records of the current batch a reader finds in the file.
PersistedBatch(file) == IF file.kind = "json" THEN saved_new ELSE 0

\* C6: after a crash with M subjects collected, the file holds at least
\* M - (CheckpointEvery - 1) and at most M records of the batch, in the
\* author stage as in the paper stage.
C6_CrashLosesLessThanInterval ==
    /\ a_pc = "crashed" =>
         /\ PersistedBatch(authors_file) >= completed_count - (CheckpointEvery - 1)
         /\ PersistedBatch(authors_file) <= completed_count
    /\ p_pc = "crashed" =>
         /\ PersistedBatch(papers_enrichment_file) >= completed_count - (CheckpointEvery - 1)
         /\ PersistedBatch(papers_enrichment_file) <= completed_count

\* C7: no step leaves a parseable (or absent) file unparseable: a save is
\* all or nothing.
C7_SaveIsAtomic ==
    [][/\ authors_file.kind # "corrupt" => authors_file'.kind # "corrupt"
       /\ papers_enrichment_file.kind # "corrupt" =>
            papers_enrichment_file'.kind # "corrupt"]_vars

\* C8: in the run with reuse that follows a crash, no subject whose Complete
\* record was in the file before the crash is dispatched, and the file the
\* run writes still holds a Complete record of it.
C8_CompleteSurvivesCrash ==
    run > 1 /\ prev_run.ended = "crashed" /\ reuse_existing =>
      /\ AuthorsPartitioned =>
           \A n \in prev_run.complete :
              /\ n \notin NamesOf(authors_to_enrich)
              /\ a_pc = "done" => n \in NamesOfClass(authors_file, "Complete")
      /\ PapersPartitioned =>
           \A t \in prev_run.complete :
              /\ t \notin TitlesOf(papers_to_enrich)
              /\ p_pc = "done" => t \in CompletePaperTitles(papers_enrichment_file)

\* C9: a second complete run with reuse over the same source leaves the
\* record set the first complete run with reuse left.
C9_SecondRunChangesNothing ==
    run = 2 /\ prev_run.ended = "done" /\ prev_run.reuse /\ reuse_existing =>
      /\ a_pc = "done" =>
           /\ Range(authors_file.data) = Range(prev_run.file.data)
           /\ Len(authors_file.data) = Len(prev_run.file.data)
      /\ p_pc = "done" =>
           /\ Range(papers_enrichment_file.data.papers) = Range(prev_run.file.data.papers)
           /\ Len(papers_enrichment_file.data.papers) = Len(prev_run.file.data.papers)

StageErrors == {StageWarning(stage) : stage \in StageNames}

IsSuffix(suffix, seq) ==
    /\ Len(suffix) <= Len(seq)
    /\ \A i \in 1..Len(suffix) : seq[Len(seq) - Len(suffix) + i] = suffix[i]

BackboneErrors == {"launch", "login", "sessions", "papers", "save", "browser_close"}

\* C11: the status 'error' comes only from a failure of login, sessions,
\* papers or save; nothing after the papers have been saved or loaded sets it.
C11_ErrorOnlyFromBackbone ==
    status = "error" => error \in BackboneErrors /\ current_step \in
                          {NoneVal, "login", "sessions", "papers", "save"}

\* C12: with reuse, a prior file that cannot be read or parsed is answered
\* by a warning and an empty prior state, and the run goes on as a fresh run
\* for that collection: the coordinator survives an unreadable papers CSV,
\* and a stage that finds its JSON file unparseable sends every candidate to
\* enrichment.
C12_CorruptPriorStateIsFreshRun ==
    /\ s_pc # "dead"
    /\ reuse_existing /\ a_pc \in {"partitioned", "pool"} /\ authors_file.kind = "corrupt" =>
         /\ "load_authors" \in warnings
         /\ existing_enriched = EmptyDict /\ previously_attempted = EmptyDict
         /\ authors_to_enrich = key_authors
    /\ reuse_existing /\ p_pc \in {"partitioned", "pool"}
       /\ papers_enrichment_file.kind = "corrupt" =>
         /\ "load_papers" \in warnings
         /\ existing_enriched_papers = EmptyDict /\ existing_categories = <<>>
         /\ papers_to_enrich = cleaned_papers

\* A text whose braces do not pair up.
Unbalanced(text) ==
    \/ \E i \in 1..Len(text) :
         Cardinality({j \in 1..i : text[j] = "}"}) > Cardinality({j \in 1..i : text[j] = "{"})
    \/ Cardinality({j \in 1..Len(text) : text[j] = "}"})
       # Cardinality({j \in 1..Len(text) : text[j] = "{"})

\* The record of a subject about which nothing was found.
NotFoundRecord(result) ==
    IF "affiliation" \in DOMAIN result
    THEN result.affiliation = "Unknown" /\ result.role = "Unknown"
    ELSE result.key_findings = "" /\ result.ai_categories = <<>>

\* C13: on a reply with unbalanced braces or with no opening brace, the
\* author worker and the paper worker do not raise and record the subject
\* with the fields of a subject that was not found.
C13_MalformedReplyIsNotFound ==
    f_pc = "returned" /\ arg # <<>> /\ (Unbalanced(arg) \/ "{" \notin Range(arg)) =>
      /\ ~ret.result.raised
      /\ ~ret.result.found_info
      /\ NotFoundRecord(IF ret.kind = "author" THEN ret.result.author ELSE ret.result.paper)

\* C14: a worker whose external call fails by transport error or timeout
\* makes exactly one further attempt, two in total, before it returns; a
\* worker whose first attempt succeeds makes exactly one call.
C14_OneFurtherAttempt ==
    f_pc = "returned" =>
      /\ arg[1] = "ok" => ret.calls = 1
      /\ arg[1] \in {"timeout", "error"} => ret.calls = 2

\* C15: in every worker that retries, the timeout of the second attempt is
\* strictly greater than that of the first and at least 1.5 times it.
C15_SecondTimeoutLonger ==
    ret.kind \in SubprocessWorkers /\ Len(ret.timeouts) >= 2 =>
      /\ ret.timeouts[2] > ret.timeouts[1]
      /\ 2 * ret.timeouts[2] >= 3 * ret.timeouts[1]

\* The key under which the claim counts two papers as the same title.
TitleKey(paper) ==
    LET raw == Get(paper, "title", NoneVal) IN
    lower(strip(IF Truthy(raw) THEN raw ELSE ""))

\* The input positions that repeat the title of an earlier position.
LaterOccurrences(papers) ==
    {j \in 1..Len(papers) :
        /\ TitleKey(papers[j]) # ""
        /\ \E i \in 1..(j - 1) : TitleKey(papers[i]) = TitleKey(papers[j])}

\* C16: clean_papers returns at most one record per stripped, case-insensitive
\* title, every returned record is the first occurrence of its title in the
\* input, and every later occurrence is dropped and counted as a duplicate,
\* whatever the score of the first occurrence was.
C16_FirstOccurrenceWins ==
    f_pc = "returned" /\ ret.kind = "clean_papers" =>
      /\ \A i, j \in 1..Len(ret.cleaned) :
           i # j => lower(ret.cleaned[i].title) # lower(ret.cleaned[j].title)
      /\ ret.dropped_dupes = Cardinality(LaterOccurrences(arg))
      /\ \A i \in 1..Len(ret.cleaned) :
           \E j \in (1..Len(arg)) \ LaterOccurrences(arg) :
             strip(Get(arg[j], "title", "")) = ret.cleaned[i].title

\* C17: every record clean_papers returns, and every record written to the
\* papers file, has a non-empty stripped title and a scaled score strictly
\* greater than 50.
C17_KeptScoresAbove50 ==
    f_pc \in {"returned", "saved"} /\ ret.kind = "clean_papers" =>
      \A c \in Range(ret.cleaned) \cup Range(ret.written) :
        /\ c.title # ""
        /\ c.relevance_score.kind = "number"
        /\ c.relevance_score.v > 5000

\* An entry has the four enrichment keys.
HasFourKeys(entry) ==
    {"affiliation", "role", "photo_url", "profile_url"} \subseteq DOMAIN entry

\* A value that is present, not empty (nor null) and not 'Unknown'.
Informative(entry, key) ==
    key \in DOMAIN entry /\ entry[key] \notin {"", NoneVal, "Unknown"}

\* C18: at both loading sites an entry goes to existing_enriched (Complete)
\* iff it has the four keys and an informative affiliation and role, to
\* previously_attempted (Attempted) iff it has the four keys and an
\* affiliation or role that is empty or 'Unknown', and to neither (Missing)
\* otherwise; never to both.
C18_ThreeClasses ==
    f_pc = "returned" /\ ret.kind \in {"reuse_branch", "author_stage"} =>
      LET complete == arg.name \in DOMAIN ret.dicts.existing_enriched
          attempted == arg.name \in DOMAIN ret.dicts.previously_attempted
          informed == Informative(arg, "affiliation") /\ Informative(arg, "role")
      IN  /\ complete <=> (HasFourKeys(arg) /\ informed)
          /\ attempted <=> (HasFourKeys(arg) /\ ~informed)
          /\ ~(complete /\ attempted)
          /\ complete => ret.dicts.existing_enriched[arg.name] = arg
          /\ attempted => ret.dicts.previously_attempted[arg.name] = arg

\* The reuse branch has classified an entry with the four keys and an empty
\* role.
C18_Witness ==
    /\ f_pc = "returned"
    /\ ret.kind = "reuse_branch"
    /\ HasFourKeys(arg)
    /\ arg.affiliation = "MIT"
    /\ arg.role = ""
    /\ arg.name \in DOMAIN ret.dicts.previously_attempted

\* The worker was handed an object with an informative affiliation and role.
ReturnedInformed(info) ==
    /\ info.kind = "dict"
    /\ Informative(info.value, "affiliation")
    /\ Informative(info.value, "role")

\* C20: the next reuse run classifies a newly processed author Complete iff
\* the worker was handed an object with an informative affiliation and role;
\* after every other outcome the file holds a record with the four keys that
\* the next run classifies Attempted, never Missing.
C20_ClassFollowsOutcome ==
    f_pc = "classified" =>
      /\ ret.class = "Complete" <=> ReturnedInformed(arg)
      /\ ~ReturnedInformed(arg) =>
           /\ Len(ret.file.data) = 1
           /\ HasFourKeys(ret.file.data[1])
           /\ ret.class = "Attempted"

\* The entries of the prior enriched-papers file as a run with reuse reads
\* them: none when reuse is off or the file is absent or unparseable.
PriorPaperEntries ==
    IF reuse_existing /\ papers_enrichment_file.kind = "json"
    THEN papers_enrichment_file.data.papers ELSE <<>>

\* An entry whose five enrichment fields are present and non-empty.
FiveFields(entry) ==
    \A field \in {"key_findings", "description", "key_contribution", "novelty",
                  "ai_categories"} :
        field \in DOMAIN entry /\ FieldTruthy(field, entry[field])

\* The positions of the entries of a title with the five fields.
EnrichedAt(entries, title) ==
    {i \in 1..Len(entries) : entries[i].title = title /\ FiveFields(entries[i])}

\* The partition has placed the paper of a title with the reused ones.
Reused(title) ==
    /\ title \in TitlesOf(already_enriched_papers)
    /\ title \notin TitlesOf(papers_to_enrich)

\* C19 as stated: a cleaned paper is reused iff the prior file has some
\* entry of its title with the five fields and the paper's current pdf_url.
C19_ReusedIffSomeEntryMatches ==
    p_pc = "partitioned" =>
      \A k \in 1..Len(cleaned_papers) :
        LET paper == cleaned_papers[k] IN
        Reused(paper.title) <=>
          \E i \in EnrichedAt(PriorPaperEntries, paper.title) :
            PriorPaperEntries[i].pdf_url = paper.pdf_url

\* C19, amended: a cleaned paper is reused iff the last entry of its title
\* with the five fields in the prior file holds the paper's current pdf_url;
\* every other paper is dispatched, and the file the stage writes holds for a
\* dispatched paper the fields its worker produced, not the stored ones.
C19_ReusedIffLastEntryMatches ==
    /\ p_pc = "partitioned" =>
         \A k \in 1..Len(cleaned_papers) :
           LET paper == cleaned_papers[k]
               at == EnrichedAt(PriorPaperEntries, paper.title)
           IN  /\ Reused(paper.title) <=>
                    /\ at # {}
                    /\ \E i \in at :
                         /\ \A j \in at : j <= i
                         /\ PriorPaperEntries[i].pdf_url = paper.pdf_url
               /\ ~Reused(paper.title) <=> paper \in Range(papers_to_enrich)
    /\ p_pc = "done" =>
         \A i \in 1..Len(papers_enrichment_file.data.papers) :
           LET entry == papers_enrichment_file.data.papers[i] IN
           entry.title \in TitlesOf(papers_to_enrich) =>
             /\ entry.key_findings # "kf"
             /\ entry.ai_categories # <<"c0">>

\* A paper whose stored enrichment was made under another URL has been
\* dispatched, its worker has run and the stage has written its file, while
\* another paper was reused.
C19_Witness ==
    /\ p_pc = "done"
    /\ run = 1
    /\ reuse_existing
    /\ prev_run = NoPrevPaperRun
    /\ already_enriched_papers # <<>>
    /\ \E k \in 1..Len(papers_to_enrich) :
         /\ papers_to_enrich[k].title \in DOMAIN existing_enriched_papers
         /\ existing_enriched_papers[papers_to_enrich[k].title].pdf_url
              # papers_to_enrich[k].pdf_url


\* C21: with reuse, a paper whose record in the prior file is the degraded
\* one of a failed enrichment (empty fields) is not dispatched to a worker
\* again.
C21_DegradedNotRetried ==
    p_pc = "partitioned" /\ reuse_existing =>
      \A k \in 1..Len(cleaned_papers) :
        LET title == cleaned_papers[k].title IN
        /\ title \in TitlesOf(PriorPaperEntries)
        /\ EnrichedAt(PriorPaperEntries, title) = {}
        => title \notin TitlesOf(papers_to_enrich)

\* Fewer than half of the current papers need enrichment.
FewNew == 2 * Len(papers_to_enrich) < Len(cleaned_papers)

\* The run's categories come from a generation call; the state tells a
\* generated list from a stored one while the stored one was not itself
\* generated by an earlier run.
Regenerated == categories \in GeneratedCategories

StoredIsDistinct == existing_categories \notin GeneratedCategories

\* C22 as stated: the stored categories are regenerated only when fewer
\* than half of the current papers are new, and reused in every other case.
C22_RegeneratedOnlyWhenFewNew ==
    p_pc = "partitioned" /\ StoredIsDistinct =>
      /\ Regenerated => FewNew
      /\ ~FewNew => categories = existing_categories /\ ~Regenerated

\* C22, amended: the stored categories are reused, without a generation
\* call, exactly when there are some and fewer than half of the current
\* papers are new; in every other case the categories are generated.
C22_ReusedOnlyWhenFewNew ==
    p_pc = "partitioned" /\ StoredIsDistinct =>
      IF existing_categories # <<>> /\ FewNew
      THEN categories = existing_categories /\ ~Regenerated
      ELSE Regenerated

\* Stored categories are reused while a paper is still to be enriched.
C22_Witness ==
    /\ p_pc = "partitioned"
    /\ existing_categories # <<>>
    /\ StoredIsDistinct
    /\ papers_to_enrich # <<>>
    /\ FewNew
    /\ categories = existing_categories

\* C23: with reuse requested and the papers file on disk, the scrape steps
\* are never entered and login, sessions, papers and save are marked complete
\* before the author stage starts; with reuse requested and no papers file,
\* the warning that reuse is unavailable is logged and the fresh extraction
\* starts at login.
ScrapeSteps == {"login", "sessions", "papers", "save"}

ReuseTaken == reuse_existing /\ s_pc # "begin" /\ "no_papers_file" \notin warnings

C23_ReuseStep ==
    s_pc = "begin" /\ reuse_existing =>
      IF papers_file_exists
      THEN /\ s_pc' # "login"
           /\ "no_papers_file" \notin warnings'
           /\ s_pc' = "authors_enter" =>
                ScrapeSteps \subseteq Range(completed_steps')
      ELSE /\ "no_papers_file" \in warnings'
           /\ s_pc' = "login"

C23_ReuseSkipsScrape ==
    /\ [](ReuseTaken =>
            /\ Range(step_trace) \cap ScrapeSteps = {}
            /\ s_pc # "dead" => ScrapeSteps \subseteq Range(completed_steps))
    /\ [][C23_ReuseStep]_vars

C23_Witness ==
    /\ ReuseTaken /\ papers_file_exists
    /\ "authors" \in Range(step_trace)
    /\ ScrapeSteps \subseteq Range(completed_steps)

\* C24: within one session no paper worker is started and the
\* enriched-papers file is not written before every author worker has
\* finished and the authors file has had its final save, or the author stage
\* has failed; the two pools are never active together.
ActiveIn(futures) == Running(futures) \cup QueuedIn(futures) \cup DoneIn(futures)

AuthorsSettled ==
    /\ AuthorStageOver
    /\ ActiveIn(future_to_author) = {}
    /\ a_pc = "done" =>
         authors_file = JsonFile(already_enriched_authors \o skipped_not_found_authors
                                 \o newly_enriched_authors)

C24_PaperStep ==
    \/ papers_enrichment_file' # papers_enrichment_file
    \/ future_to_paper' # future_to_paper
    => AuthorsSettled

C24_PoolsInSequence ==
    /\ [](p_pc # "waiting" => AuthorsSettled)
    /\ [](ActiveIn(future_to_author) = {} \/ ActiveIn(future_to_paper) = {})
    /\ [][C24_PaperStep]_vars

C24_Witness ==
    /\ a_pc = "done" /\ newly_enriched_authors # <<>>
    /\ p_pc = "pool" /\ Running(future_to_paper) # {}

\* C25: no two threads have the same output file open for writing at the
\* same time, also when a second session for the same conference is started
\* while the first is running; every writer is a coordinating thread.
WritingOf(thread) == thread.output_files[WriteOrder[thread.next]]

C25_SingleWriter ==
    f_pc = "serving" =>
      /\ \A i \in 1..Len(ret.threads) : ret.threads[i].writer = "coordinator"
      /\ \A i, j \in 1..Len(ret.threads) :
           /\ i # j
           /\ ret.threads[i].open
           /\ ret.threads[j].open
           => WritingOf(ret.threads[i]) # WritingOf(ret.threads[j])

\* C26: a paper record that is in the enriched-papers file before a run is
\* still in it, by title, after the run: a run that completes only adds
\* records. The file before the run is the one the previous run left.
C26_NoRecordRemoved ==
    p_pc = "done" /\ run > 1 =>
      TitlesOf(prev_run.file.data.papers)
        \subseteq TitlesOf(papers_enrichment_file.data.papers)

\* C27: every author dispatched to a worker or written to the authors file
\* has a paper whose score is at least the highly-relevant threshold, a score
\* equal to the threshold counting; an author without such a paper is
\* neither dispatched nor written.
AuthoredBy(name) == {k \in 1..Len(arg) : name \in Range(parse_authors(arg[k].authors))}

HasHighlyRelevantPaper(name) ==
    \E k \in AuthoredBy(name) :
       /\ arg[k].relevance_score.kind = "number"
       /\ arg[k].relevance_score.v >= 8500

C27_KeyAuthorsOnly ==
    f_pc = "dispatched" =>
      \A name \in NamesOf(ret.dispatched) \cup NamesOf(ret.written) :
         HasHighlyRelevantPaper(name)

C27_Witness ==
    /\ f_pc = "dispatched"
    /\ Len(arg) = 2
    /\ arg[1].relevance_score = Number(8500)
    /\ arg[2].relevance_score = Number(8499)
    /\ "a1" \in NamesOf(ret.dispatched)
    /\ AuthoredBy("a2") = {2}
    /\ "a2" \notin NamesOf(ret.dispatched) \cup NamesOf(ret.written)

\* C28: a boolean flag of a paper (award, bookmarked, liked, disliked,
\* pinned) written to the papers file and loaded back has the same value, and
\* a loaded flag is true exactly when its cell, in lower case, is one of
\* true, 1, yes and y.
TrueCell(cell) ==
    cell \in {"true", "True", "TRUE", "1", "yes", "Yes", "y", "Y"}

C28_FlagsRoundTrip ==
    /\ f_pc = "reloaded" =>
         \A field \in BOOL_FIELDS :
            arg[field].kind = "bool" => ret.loaded[field] = arg[field].b
    /\ f_pc \in {"reloaded", "loaded"} =>
         \A field \in BOOL_FIELDS : ret.loaded[field] <=> TrueCell(ret.row[field])

C28_Witness ==
    /\ f_pc = "reloaded"
    /\ arg["award"] = PyBool(TRUE) /\ ret.loaded["award"]
    /\ arg["pinned"] = PyBool(FALSE) /\ ~ret.loaded["pinned"]

\* C29: both workers' parsers find the JSON object of a reply by matching
\* braces from the first opening one, so a reply that is an object holding a
\* nested object is cut out whole and parsed.
NestedObjectReply == IsObject(arg) /\ "{" \in Range(Tail(arg))

C29_NestedObjectParsed ==
    f_pc = "returned" /\ NestedObjectReply =>
      /\ ret.kind = "author" =>
           /\ get_author_info(arg) = [kind |-> "dict", value |-> AuthorObject({"q"})]
           /\ ret.result.found_info
      /\ ret.kind = "paper" =>
           enrich_paper(arg) = [kind |-> "dict", value |-> PaperObject({"q"})]

\* C30: the final authors file is the already enriched authors, then the
\* previously attempted ones, then the newly enriched ones, the first two
\* groups in the order of the key authors and the third in the order the
\* workers' results were collected as they completed; every save of the
\* paper stage is the already enriched papers followed by the newly enriched
\* ones collected so far, so the saves of one run only grow.
IsPrefix(prefix, seq) ==
    /\ Len(prefix) <= Len(seq)
    /\ \A i \in 1..Len(prefix) : seq[i] = prefix[i]

PositionOf(name) == CHOOSE k \in 1..Len(key_authors) : key_authors[k].name = name

InCandidateOrder(authors) ==
    /\ NamesOf(authors) \subseteq NamesOf(key_authors)
    /\ \A i, j \in 1..Len(authors) :
         i < j => PositionOf(authors[i].name) < PositionOf(authors[j].name)

C30_AuthorCollected ==
    a_pc = "pool" /\ a_pc' = "pool" /\ newly_enriched_authors' # newly_enriched_authors =>
      \E i \in DoneIn(future_to_author) :
         /\ newly_enriched_authors' =
              Append(newly_enriched_authors, future_to_author[i].result.author)
         /\ future_to_author'[i].state = "collected"

C30_PaperSaved ==
    /\ p_pc = "pool" /\ p_pc' \in {"pool", "done"}
    /\ papers_enrichment_file' # papers_enrichment_file
    => /\ papers_enrichment_file'.data.papers =
            already_enriched_papers \o newly_enriched_papers'
       /\ IsPrefix(newly_enriched_papers, newly_enriched_papers')
       /\ saved_new > 0 =>
            IsPrefix(papers_enrichment_file.data.papers,
                     papers_enrichment_file'.data.papers)

C30_FilesInOrder ==
    /\ [](a_pc = "done" =>
            /\ authors_file = JsonFile(already_enriched_authors
                                       \o skipped_not_found_authors
                                       \o newly_enriched_authors)
            /\ InCandidateOrder(already_enriched_authors)
            /\ InCandidateOrder(skipped_not_found_authors))
    /\ [][C30_AuthorCollected]_vars
    /\ [][C30_PaperSaved]_vars

C30_Witness ==
    /\ a_pc = "done"
    /\ Len(newly_enriched_authors) = 2
    /\ PositionOf(newly_enriched_authors[1].name) = 2
    /\ p_pc = "pool"
    /\ already_enriched_papers # <<>>
    /\ saved_new = 2
    /\ papers_enrichment_file.data.papers =
         already_enriched_papers \o newly_enriched_papers

\* C31: a worker assigns only to its own copy of the record: after the
\* worker has run, whatever it found, the record held in the
\* needs-enrichment list is as it was submitted, and the result reaches the
\* shared collections only by the coordinator's merge.
C31_ListedRecordUnchanged ==
    /\ f_pc \in {"taken", "returned", "merged"} => ret.listed = arg.subject
    /\ f_pc \in {"submitted", "taken", "returned"} => ret.merged = <<>>

\* C32: a run of the paper stage chooses its category list once, before any
\* paper worker starts; the list stays the same while the workers run, so
\* every enrichment call reads the same list, and every checkpoint and the
\* final save write that list in the file's categories.
C32_RunStep ==
    /\ p_pc \in {"partitioned", "pool"} /\ p_pc' \in {"partitioned", "pool", "done"}
       => categories' = categories
    /\ papers_enrichment_file' # papers_enrichment_file /\ p_pc' \in {"pool", "done"}
       => papers_enrichment_file'.data.categories = categories

C32_OneCategorySet ==
    /\ [](p_pc = "start" => future_to_paper = <<>>)
    /\ [](p_pc = "done" => papers_enrichment_file.data.categories = categories)
    /\ [][C32_RunStep]_vars

C32_Witness ==
    /\ p_pc = "pool"
    /\ saved_new = CheckpointEvery
    /\ Running(future_to_paper) # {}
    /\ categories # <<>>
    /\ papers_enrichment_file.data.categories = categories

\* C33: a stage whose needs-enrichment partition is empty creates no pool
\* and submits no call; it rewrites its file with exactly the reused records
\* (for authors followed by the skipped, previously attempted ones), records
\* its step as completed and counts as enriched the records it wrote.
WrittenRecords == IF arg.stage = "authors" THEN ret.file.data ELSE ret.file.data.papers

C33_AllReused ==
    /\ f_pc \in {"partitioned", "saved", "pool"} =>
         (ret.to_enrich = <<>> => ~ret.pool /\ ret.submitted = 0 /\ f_pc # "pool")
    /\ f_pc = "saved" =>
         /\ ret.to_enrich = <<>>
         /\ ret.file.kind = "json"
         /\ WrittenRecords = ret.already \o ret.skipped
         /\ arg.stage \in Range(ret.completed_steps)
         /\ ret.enriched = Len(WrittenRecords)

C33_Witness ==
    /\ f_pc = "saved"
    /\ arg.stage = "authors"
    /\ ret.already # <<>> /\ ret.skipped # <<>>
    /\ ret.enriched = 2

\* C34: a run without reuse reads no prior enrichment state: nothing is
\* loaded from the enriched-authors or the enriched-papers file, the already
\* enriched and the previously attempted partitions are empty, every key
\* author and every cleaned paper is dispatched, and the completed stage
\* leaves in its file this run's results only.
C34_FreshRun ==
    ~reuse_existing =>
      /\ AuthorsPartitioned =>
           /\ existing_enriched = EmptyDict /\ previously_attempted = EmptyDict
           /\ already_enriched_authors = <<>> /\ skipped_not_found_authors = <<>>
           /\ authors_to_enrich = key_authors
      /\ a_pc = "pool" => Len(future_to_author) = Len(key_authors)
      /\ a_pc = "done" => authors_file = JsonFile(newly_enriched_authors)
      /\ PapersPartitioned =>
           /\ existing_enriched_papers = EmptyDict /\ existing_categories = <<>>
           /\ already_enriched_papers = <<>>
           /\ papers_to_enrich = cleaned_papers
      /\ p_pc = "pool" => Len(future_to_paper) = Len(cleaned_papers)
      /\ p_pc = "done" =>
           papers_enrichment_file = PapersDocument(categories, newly_enriched_papers)

C34_Witness ==
    /\ ~reuse_existing /\ run = 2 /\ a_pc = "done"
    /\ prev_run.file.kind = "json"
    /\ "a1" \in CompleteAuthorNames(prev_run.file)
    /\ "a1" \in NamesOf(newly_enriched_authors)
    /\ authors_file = JsonFile(newly_enriched_authors)

\* C35: every entry appended to a session's log is returned by exactly one
\* poll, in the order of the appends, also when entries are appended while a
\* poll is served: after each poll the entries delivered so far are the
\* entries the index has passed, none skipped and none twice.
C35_EveryEntryOnce ==
    f_pc = "idle" => ret.delivered = SubSeq(ret.logs, 1, ret.log_index)

\* C36: no path of the pipeline ends the session's thread while the status
\* is still 'running': when the thread has ended, after a failure to load
\* the prior state under reuse as after anything else, the status is
\* 'completed' or 'error'.
ThreadEnded == s_pc \in {"end", "dead"}

C36_EndsWithTerminalStatus == ThreadEnded => status \in {"completed", "error"}

\* C37: a status that has left 'running' never changes again, and
\* completed_steps only grows: no step is removed, none appears twice, and
\* the steps stand in the order login, sessions, papers, save, authors,
\* papers_enrichment, synthesis, website.
PipelineOrder ==
    <<"login", "sessions", "papers", "save", "authors", "papers_enrichment",
      "synthesis", "website">>

PipelinePosition(step) == CHOOSE k \in 1..Len(PipelineOrder) : PipelineOrder[k] = step

C37_Step ==
    /\ status # "running" => status' = status
    /\ IsPrefix(completed_steps, completed_steps')

C37_StatusAndStepsMonotone ==
    /\ [](/\ Range(completed_steps) \subseteq Range(PipelineOrder)
          /\ \A i, j \in 1..Len(completed_steps) :
               i < j => PipelinePosition(completed_steps[i])
                          < PipelinePosition(completed_steps[j]))
    /\ [][C37_Step]_vars

C37_Witness ==
    /\ s_pc = "end" /\ status = "completed"
    /\ completed_steps = PipelineOrder

\* C38: two extraction requests never receive the same session id, and a
\* session that is running is found by /api/progress under its own id: no
\* later request replaces it in the registry.
C38_DistinctSessionIds ==
    f_pc = "serving_requests" =>
      /\ \A i, j \in 1..Len(ret.ids) : i # j => ret.ids[i] # ret.ids[j]
      /\ \A session \in ret.running :
           /\ ret.ids[session] \in DOMAIN ret.sessions
           /\ ret.sessions[ret.ids[session]] = session

\* C39: clean_papers accounts for every input record once: the records
\* kept, the duplicates dropped, the low-relevance records dropped and the
\* records whose title is empty or blank add up to the number of input
\* records.
BlankTitles == {k \in 1..Len(arg) : TitleKey(arg[k]) = ""}

C39_EveryRecordAccounted ==
    f_pc \in {"returned", "saved"} /\ ret.kind = "clean_papers" =>
      Len(ret.cleaned) + ret.dropped_dupes + ret.dropped_low + Cardinality(BlankTitles)
        = Len(arg)

C39_Witness ==
    /\ f_pc = "returned" /\ ret.kind = "clean_papers"
    /\ Len(arg) = 3
    /\ Cardinality(BlankTitles) = 1
    /\ ret.dropped_dupes = 1
    /\ Len(ret.cleaned) = 1

====
